---------------------------- MODULE Spec2Model ----------------------------
(***************************************************************************)
(* A model of go-mysql/slowlog: the slow-log FileParser (parser goroutine, *)
(* Start/Stop callers and one consumer of the Events channel).             *)
(*                                                                         *)
(* Text is modelled as text: a line is a TLA+ string, and the regular      *)
(* expressions and string functions of the source are operators computed   *)
(* character by character on it.  Time metrics are kept in microseconds    *)
(* (integers), the precision at which the repository's tests compare.      *)
(***************************************************************************)
EXTENDS Integers, Sequences, FiniteSets, TLC

(***************************************************************************)
(* Bounds of the model.                                                    *)
(***************************************************************************)
\* Lines the environment may supply to one parser when the input is not a
\* fixed file.
MaxLines == 4

\* the events a caller adds to an aggregator
MaxEvents == 3

\* the member classes a caller gives to NewAggregateClass
MaxMembers == 3
MaxTailLines == 2

(***************************************************************************)
(* Characters and strings (package strings).                               *)
(***************************************************************************)
Char(s, i) == SubSeq(s, i, i)

Upper == {"A", "B", "C", "D", "E", "F", "G", "H", "I", "J", "K", "L", "M",
          "N", "O", "P", "Q", "R", "S", "T", "U", "V", "W", "X", "Y", "Z"}
Lower == {"a", "b", "c", "d", "e", "f", "g", "h", "i", "j", "k", "l", "m",
          "n", "o", "p", "q", "r", "s", "t", "u", "v", "w", "x", "y", "z"}
\* A string of the module cannot hold a backquote: the model writes the
\* backquote of MySQL's quoted names as this character.
Backquote == "~"
Digit == {"0", "1", "2", "3", "4", "5", "6", "7", "8", "9"}
\* \s of Go's regexp: [\t\n\f\r ]
Space == {" ", "\t", "\n", "\f", "\r"}
\* \w of Go's regexp: [0-9A-Za-z_]
Word == Upper \cup Lower \cup Digit \cup {"_"}

IsSpace(s, i) == i <= Len(s) /\ Char(s, i) \in Space
IsNonSpace(s, i) == i <= Len(s) /\ Char(s, i) \notin Space
IsWord(s, i) == i <= Len(s) /\ Char(s, i) \in Word

\* s[i:] with i a 1-based position
From(s, i) == SubSeq(s, i, Len(s))

\* whether t occurs in s at position i
At(s, i, t) == i + Len(t) - 1 <= Len(s) /\ SubSeq(s, i, i + Len(t) - 1) = t

HasPrefix(s, prefix) == At(s, 1, prefix)

HasSuffix(s, suffix) ==
    Len(s) >= Len(suffix) /\ From(s, Len(s) - Len(suffix) + 1) = suffix

TrimPrefix(s, prefix) == IF HasPrefix(s, prefix) THEN From(s, Len(prefix) + 1) ELSE s

TrimSuffix(s, suffix) ==
    IF HasSuffix(s, suffix) THEN SubSeq(s, 1, Len(s) - Len(suffix)) ELSE s

\* strings.TrimRight(s, c) for a one-character cutset
RECURSIVE TrimRight(_, _)
TrimRight(s, c) ==
    IF Len(s) > 0 /\ Char(s, Len(s)) = c
    THEN TrimRight(SubSeq(s, 1, Len(s) - 1), c)
    ELSE s

RECURSIVE TrimLeft(_, _)
TrimLeft(s, c) ==
    IF Len(s) > 0 /\ Char(s, 1) = c THEN TrimLeft(From(s, 2), c) ELSE s

\* strings.Trim(s, c) for a one-character cutset
Trim(s, c) == TrimRight(TrimLeft(s, c), c)

\* the least position >= i of s at which P holds, Len(s) + 1 when none
RECURSIVE SkipWhile(_, _, _)
SkipWhile(s, i, set) ==
    IF i <= Len(s) /\ Char(s, i) \in set THEN SkipWhile(s, i + 1, set) ELSE i

RECURSIVE SkipUntil(_, _, _)
SkipUntil(s, i, set) ==
    IF i <= Len(s) /\ Char(s, i) \notin set THEN SkipUntil(s, i + 1, set) ELSE i

\* the least position >= i at which t occurs in s, 0 when none
RECURSIVE Index(_, _, _)
Index(s, i, t) ==
    IF i + Len(t) - 1 > Len(s) THEN 0
    ELSE IF At(s, i, t) THEN i
    ELSE Index(s, i + 1, t)


Min(S) == CHOOSE x \in S : \A y \in S : x <= y
Max(S) == CHOOSE x \in S : \A y \in S : x >= y

(***************************************************************************)
(* strconv.  The slow log writes numbers in plain decimal notation, and    *)
(* that is the notation modelled; a parse failure yields 0, since the      *)
(* callers drop the error and keep the value.                              *)
(***************************************************************************)
DigitVal(c) ==
    CASE c = "0" -> 0 [] c = "1" -> 1 [] c = "2" -> 2 [] c = "3" -> 3
      [] c = "4" -> 4 [] c = "5" -> 5 [] c = "6" -> 6 [] c = "7" -> 7
      [] c = "8" -> 8 [] c = "9" -> 9

AllDigits(s) == \A i \in 1..Len(s) : Char(s, i) \in Digit

RECURSIVE DecVal(_)
DecVal(s) ==
    IF Len(s) = 0 THEN 0
    ELSE 10 * DecVal(SubSeq(s, 1, Len(s) - 1)) + DigitVal(Char(s, Len(s)))

\* strconv.ParseUint(s, 10, 64), the error dropped
ParseUint(s) == IF Len(s) > 0 /\ AllDigits(s) THEN DecVal(s) ELSE 0

\* the first six digits of a fraction, as microseconds
Micros(frac) ==
    LET six == SubSeq(frac \o "000000", 1, 6) IN DecVal(six)

\* strconv.ParseFloat(s, 32), the error dropped; the value in microseconds
ParseFloat(s) ==
    LET dot == Index(s, 1, ".")
        int == IF dot = 0 THEN s ELSE SubSeq(s, 1, dot - 1)
        frac == IF dot = 0 THEN "" ELSE From(s, dot + 1)
    IN  IF Len(int) + Len(frac) > 0 /\ AllDigits(int) /\ AllDigits(frac)
        THEN DecVal(int) * 1000000 + Micros(frac)
        ELSE 0

(***************************************************************************)
(* The regular expressions of the parser.  A match operator returns the    *)
(* submatches after the whole match (m[1], m[2], ...) as a tuple, and <<>> *)
(* when the line does not match (Go's nil slice).                          *)
(***************************************************************************)
\* headerRe = ^#\s+[A-Z]
headerRe(line) ==
    /\ HasPrefix(line, "#")
    /\ IsSpace(line, 2)
    /\ LET j == SkipWhile(line, 2, Space)
       IN  j <= Len(line) /\ Char(line, j) \in Upper

\* timeRe at one occurrence of "Time: ": (\S+\s{1,2}\S+) from position a
timeReAt(line, a) ==
    LET e1 == SkipUntil(line, a, Space)
        b == IF IsNonSpace(line, e1 + 1) THEN e1 + 1 ELSE e1 + 2
    IN  IF IsNonSpace(line, a) /\ IsSpace(line, e1) /\ IsNonSpace(line, b)
        THEN <<SubSeq(line, a, SkipUntil(line, b, Space) - 1)>>
        ELSE <<>>

\* timeRe = Time: (\S+\s{1,2}\S+), leftmost match at or after position i
RECURSIVE timeReFrom(_, _)
timeReFrom(line, i) ==
    LET k == Index(line, i, "Time: ")
    IN  IF k = 0 THEN <<>>
        ELSE IF timeReAt(line, k + 6) # <<>> THEN timeReAt(line, k + 6)
        ELSE timeReFrom(line, k + 1)

timeRe(line) == timeReFrom(line, 1)

\* userRe from "@ " on: @ (\S*) \[(.*)\] with "@ " at position j
userReTail(line, j) ==
    LET q == j + 2
        h == SkipUntil(line, q, Space)
    IN  At(line, j, "@ ") /\ At(line, h, " [") /\ Index(line, h + 2, "]") # 0

userReHost(line, j) == SubSeq(line, j + 2, SkipUntil(line, j + 2, Space) - 1)

\* the positions >= from at which the tail of userRe matches
userReTails(line, from) == {j \in from..Len(line) : userReTail(line, j)}

\* userRe at one occurrence of "User@Host: ": the rest from position a.
\* ([^\[]+|\[[^[]+\]) is greedy and .*? lazy: the first alternative takes
\* the longest run without "[" that leaves a tail, the second the longest
\* bracketed text that leaves one; the tail is then the nearest one.
userReAt(line, a) ==
    LET M == SkipUntil(line, a, {"["}) - a
        T1 == userReTails(line, a + 1)
        e == IF Max(T1) - a < M THEN Max(T1) - a ELSE M
        M2 == SkipUntil(line, a + 1, {"["}) - (a + 1)
        C2 == {c \in (a + 2)..(a + M2) :
                  Char(line, c) = "]" /\ userReTails(line, c + 1) # {}}
    IN  IF M >= 1 /\ T1 # {}
        THEN <<SubSeq(line, a, a + e - 1),
               userReHost(line, Min(userReTails(line, a + e)))>>
        ELSE IF Char(line, a) = "[" /\ C2 # {}
        THEN <<SubSeq(line, a, Max(C2)),
               userReHost(line, Min(userReTails(line, Max(C2) + 1)))>>
        ELSE <<>>

\* userRe = User@Host: ([^\[]+|\[[^[]+\]).*?@ (\S*) \[(.*)\]
RECURSIVE userReFrom(_, _)
userReFrom(line, i) ==
    LET k == Index(line, i, "User@Host: ")
    IN  IF k = 0 THEN <<>>
        ELSE IF userReAt(line, k + 11) # <<>> THEN userReAt(line, k + 11)
        ELSE userReFrom(line, k + 1)

userRe(line) == userReFrom(line, 1)

\* schema at one occurrence of "Schema:" ending before position c:
\* " +" is greedy and (.*?) lazy
schemaAt(line, c) ==
    LET N == SkipWhile(line, c, {" "}) - c
        PS == {j \in (c + 1)..Len(line) :
                  /\ Char(line, j) = " "
                  /\ At(line, SkipWhile(line, j, {" "}), "Last_errno:")}
        n == IF Max(PS) - c < N THEN Max(PS) - c ELSE N
    IN  IF N >= 1 /\ PS # {}
        THEN <<SubSeq(line, c + n, Min({j \in PS : j >= c + n}) - 1)>>
        ELSE <<>>

\* schema = Schema: +(.*?) +Last_errno:
RECURSIVE schemaFrom(_, _)
schemaFrom(line, i) ==
    LET k == Index(line, i, "Schema:")
    IN  IF k = 0 THEN <<>>
        ELSE IF schemaAt(line, k + 7) # <<>> THEN schemaAt(line, k + 7)
        ELSE schemaFrom(line, k + 1)

schema(line) == schemaFrom(line, 1)

\* metricsRe = (\w+): (\S+|\z), every match from position i on, each as
\* <<metric, value>> (smv[1], smv[2])
RECURSIVE metricsReFrom(_, _)
metricsReFrom(line, i) ==
    IF i > Len(line) THEN <<>>
    ELSE LET e == SkipWhile(line, i, Word)
             v == e + 2
             w == SkipUntil(line, v, Space)
         IN  IF e > i /\ At(line, e, ": ") /\ IsNonSpace(line, v)
             THEN <<<<SubSeq(line, i, e - 1), SubSeq(line, v, w - 1)>>>>
                      \o metricsReFrom(line, w)
             ELSE IF e > i /\ At(line, e, ": ") /\ v = Len(line) + 1
             THEN <<<<SubSeq(line, i, e - 1), "">>>>
             ELSE metricsReFrom(line, i + 1)

metricsRe(line) == metricsReFrom(line, 1)

\* adminRe = command: (.+)
adminRe(line) ==
    LET k == Index(line, 1, "command: ")
    IN  IF k # 0 /\ k + 9 <= Len(line) THEN <<From(line, k + 9)>> ELSE <<>>

\* setRe = ^SET (?:last_insert_id|insert_id|timestamp)
setRe(line) ==
    \/ HasPrefix(line, "SET last_insert_id")
    \/ HasPrefix(line, "SET insert_id")
    \/ HasPrefix(line, "SET timestamp")

\* useRe = ^(?i)use , as FindString: the matched text, "" when none
useRe(line) ==
    IF /\ Len(line) >= 4
       /\ Char(line, 1) \in {"u", "U"}
       /\ Char(line, 2) \in {"s", "S"}
       /\ Char(line, 3) \in {"e", "E"}
       /\ Char(line, 4) = " "
    THEN SubSeq(line, 1, 4)
    ELSE ""

\* The lines of a file supplied line by line: a header line without and one
\* with Query_time, an admin line with and one without its command, and
\* query lines.
Lines ==
    {"# Time: 071015 21:43:52",
     "# Query_time: 2  Lock_time: 0",
     "# administrator command: Quit;",
     "# admin",
     "select 1;",
     "SET timestamp=1;",
     ";"}

\* The lines of a file whose events have a body of several lines, as the
\* event of slow005.log has: a header line with Query_time, a `use` line,
\* a SET line, two lines of a query, the second beginning with a tab and
\* ending with `;`, and the two admin lines.
BodyLines ==
    {"# Query_time: 2  Lock_time: 0",
     "use db1;",
     "SET timestamp=1;",
     "foo",
     "\t0 AS counter;",
     "# administrator command: Quit;",
     "# admin"}

\* What the regular expressions find in one line.  For the lines of Lines
\* it is computed once, as the expressions are compiled once.
Matches(line) ==
    [headerRe |-> headerRe(line), timeRe |-> timeRe(line),
     userRe |-> userRe(line), schema |-> schema(line),
     metricsRe |-> metricsRe(line), adminRe |-> adminRe(line),
     setRe |-> setRe(line), useRe |-> useRe(line)]

Compiled == [line \in Lines \cup BodyLines |-> Matches(line)]

Re(line) == IF line \in Lines \cup BodyLines THEN Compiled[line] ELSE Matches(line)

(***************************************************************************)
(* Event and the parser's per-event state.  A Go map is a function whose   *)
(* domain is the set of its keys.                                          *)
(***************************************************************************)
Put(m, k, v) == (k :> v) @@ m

\* a nil pointer or a nil map
Nil == [nil |-> TRUE]

NewEvent ==
    [Offset |-> 0, Ts |-> "", Admin |-> FALSE, Query |-> "", User |-> "",
     Host |-> "", Db |-> "", TimeMetrics |-> <<>>, NumberMetrics |-> <<>>,
     BoolMetrics |-> <<>>, RateType |-> "", RateLimit |-> 0,
     CommentMetadata |-> <<>>]

\* The fields of FileParser that only the parser goroutine touches once it
\* runs, as NewFileParser sets them.
NewFileParser ==
    [inHeader |-> FALSE, inQuery |-> FALSE, headerLines |-> 0,
     queryLines |-> 0, bytesRead |-> 0, lineOffset |-> 0, event |-> NewEvent]

(***************************************************************************)
(* The line handlers.  Each takes the parser fields p and returns          *)
(*   [p |-> the fields after it, act |-> what the goroutine does next]     *)
(* with act one of                                                         *)
(*   "next"  : back to the scanner loop,                                   *)
(*   "send"  : blocked in sendEvent's select, p.event being the event      *)
(*             offered; inHeader/inQuery are sendEvent's arguments, which  *)
(*             its deferred function applies, and then is the line         *)
(*             parseHeader still has to process after the send ("" when    *)
(*             none),                                                      *)
(*   "panic" : the goroutine panics.                                       *)
(* discard tells that sendEvent threw the event away.                      *)
(***************************************************************************)
Ret(p, act) == [p |-> p, act |-> act, inHeader |-> FALSE, inQuery |-> FALSE,
                then |-> "", discard |-> FALSE]

\* the deferred function of sendEvent
sendEventDefer(p, inHeader, inQuery) ==
    [p EXCEPT !.event = NewEvent, !.headerLines = 0, !.queryLines = 0,
              !.inHeader = inHeader, !.inQuery = inQuery]

\* sendEvent without its test for Query_time
sendEventUnchecked(p, inHeader, inQuery) ==
    [p |-> [p EXCEPT !.event.Db = TrimSuffix(p.event.Db, ";\n"),
                     !.event.Query = TrimSuffix(p.event.Query, ";")],
     act |-> "send", inHeader |-> inHeader, inQuery |-> inQuery, then |-> "",
     discard |-> FALSE]

\* sendEvent with the two outcomes of a missing Query_time exchanged
sendEventHeaderless(p, inHeader, inQuery) ==
    IF "Query_time" \notin DOMAIN p.event.TimeMetrics
    THEN IF p.headerLines = 0
         THEN [Ret(sendEventDefer(p, inHeader, inQuery), "next")
                  EXCEPT !.discard = TRUE]
         ELSE Ret(sendEventDefer(p, inHeader, inQuery), "panic")
    ELSE [p |-> [p EXCEPT !.event.Db = TrimSuffix(p.event.Db, ";\n"),
                          !.event.Query = TrimSuffix(p.event.Query, ";")],
          act |-> "send", inHeader |-> inHeader, inQuery |-> inQuery,
          then |-> "", discard |-> FALSE]

\* sendEvent up to its select
sendEvent(p, inHeader, inQuery) ==
    IF "Query_time" \notin DOMAIN p.event.TimeMetrics
    THEN IF p.headerLines = 0
         THEN Ret(sendEventDefer(p, inHeader, inQuery), "panic")
         ELSE [Ret(sendEventDefer(p, inHeader, inQuery), "next")
                  EXCEPT !.discard = TRUE]
    ELSE [p |-> [p EXCEPT !.event.Db = TrimSuffix(p.event.Db, ";\n"),
                          !.event.Query = TrimSuffix(p.event.Query, ";")],
          act |-> "send", inHeader |-> inHeader, inQuery |-> inQuery,
          then |-> "", discard |-> FALSE]

parseAdmin(p, line, opt) ==
    LET m == Re(line).adminRe
        p1 == [p EXCEPT !.event.Admin = TRUE]
        p2 == [p1 EXCEPT !.event.Query = TrimSuffix(m[1], ";")]
    IN  IF m = <<>> THEN Ret(p1, "panic")    \* m[1]: index out of range
        ELSE IF p2.event.Query \notin opt.FilterAdminCommand
        THEN sendEvent(p2, FALSE, FALSE)
        ELSE Ret([p2 EXCEPT !.inHeader = FALSE, !.inQuery = FALSE], "next")

\* the loop of parseHeader over the matches of metricsRe, from match i on
RECURSIVE parseMetrics(_, _, _)
parseMetrics(event, m, i) ==
    IF i > Len(m) THEN event
    ELSE LET name == m[i][1]
             val == m[i][2]
         IN  parseMetrics(
                 IF HasSuffix(name, "_time") \/ HasSuffix(name, "_wait")
                 THEN [event EXCEPT !.TimeMetrics = Put(@, name, ParseFloat(val))]
                 ELSE IF val = "Yes" \/ val = "No"
                 THEN [event EXCEPT !.BoolMetrics = Put(@, name, val = "Yes")]
                 ELSE IF name = "Schema"
                 THEN [event EXCEPT !.Db = val]
                 ELSE IF name = "Log_slow_rate_type"
                 THEN [event EXCEPT !.RateType = val]
                 ELSE IF name = "Log_slow_rate_limit"
                 THEN [event EXCEPT !.RateLimit = ParseUint(val)]
                 ELSE IF name = "InnoDB_trx_id"
                 THEN event
                 ELSE [event EXCEPT !.NumberMetrics = Put(@, name, ParseUint(val))],
                 m, i + 1)

\* parseHeaderLine without the count of header lines
parseHeaderLineUncounted(p, line, opt) ==
    LET p1 == [p EXCEPT !.event.Offset =
                            IF p.headerLines = 0 THEN p.lineOffset ELSE @]
    IN  IF HasPrefix(line, "# Time")
        THEN LET m == Re(line).timeRe
                 u == Re(line).userRe
             IN  IF Len(m) < 1 THEN Ret(p1, "next")
                 ELSE IF u # <<>>
                 THEN Ret([p1 EXCEPT !.event.Ts = m[1], !.event.User = u[1],
                                     !.event.Host = u[2]], "next")
                 ELSE Ret([p1 EXCEPT !.event.Ts = m[1]], "next")
        ELSE IF HasPrefix(line, "# User")
        THEN LET m == Re(line).userRe
             IN  IF Len(m) < 2 THEN Ret(p1, "next")
                 ELSE Ret([p1 EXCEPT !.event.User = m[1], !.event.Host = m[2]],
                          "next")
        ELSE IF HasPrefix(line, "# admin")
        THEN parseAdmin(p1, line, opt)
        ELSE LET submatch == Re(line).schema
                 e1 == IF Len(submatch) = 1
                       THEN [p1.event EXCEPT !.Db = submatch[1]]
                       ELSE p1.event
             IN  Ret([p1 EXCEPT !.event = parseMetrics(e1, Re(line).metricsRe, 1)],
                     "next")

\* parseHeader on a line that matches headerRe
parseHeaderLine(p, line, opt) ==
    LET p1 == [p EXCEPT !.event.Offset =
                            IF p.headerLines = 0 THEN p.lineOffset ELSE @,
                        !.headerLines = @ + 1]
    IN  IF HasPrefix(line, "# Time")
        THEN LET m == Re(line).timeRe
                 u == Re(line).userRe
             IN  IF Len(m) < 1 THEN Ret(p1, "next")
                 ELSE IF u # <<>>
                 THEN Ret([p1 EXCEPT !.event.Ts = m[1], !.event.User = u[1],
                                     !.event.Host = u[2]], "next")
                 ELSE Ret([p1 EXCEPT !.event.Ts = m[1]], "next")
        ELSE IF HasPrefix(line, "# User")
        THEN LET m == Re(line).userRe
             IN  IF Len(m) < 2 THEN Ret(p1, "next")
                 ELSE Ret([p1 EXCEPT !.event.User = m[1], !.event.Host = m[2]],
                          "next")
        ELSE IF HasPrefix(line, "# admin")
        THEN parseAdmin(p1, line, opt)
        ELSE LET submatch == Re(line).schema
                 e1 == IF Len(submatch) = 1
                       THEN [p1.event EXCEPT !.Db = submatch[1]]
                       ELSE p1.event
             IN  Ret([p1 EXCEPT !.event = parseMetrics(e1, Re(line).metricsRe, 1)],
                     "next")

\* parseQueryLine counting a `use` line as a query line
parseQueryLineUseCounted(p, line) ==
    LET isUse == Re(line).useRe
    IN  IF p.queryLines = 0 /\ isUse # ""
        THEN [p EXCEPT !.event.Db =
                           Trim(TrimRight(TrimPrefix(line, isUse), ";"), Backquote),
                       !.event.Query = line,
                       !.queryLines = @ + 1]
        ELSE IF Re(line).setRe
        THEN p
        ELSE [p EXCEPT !.event.Query =
                           IF p.queryLines > 0 THEN @ \o "\n" \o line ELSE line,
                       !.queryLines = @ + 1]

\* parseQuery on a line that is neither an admin line nor a header line
parseQueryLine(p, line) ==
    LET isUse == Re(line).useRe
    IN  IF p.queryLines = 0 /\ isUse # ""
        THEN [p EXCEPT !.event.Db =
                           Trim(TrimRight(TrimPrefix(line, isUse), ";"), Backquote),
                       !.event.Query = line]
        ELSE IF Re(line).setRe
        THEN p
        ELSE [p EXCEPT !.event.Query =
                           IF p.queryLines > 0 THEN @ \o "\n" \o line ELSE line,
                       !.queryLines = @ + 1]

\* the rest of parseQuery's header branch once sendEvent has returned:
\* parseHeader(line), line being a header line
parseQueryThen(p, line, opt) == parseHeaderLine(p, line, opt)

parseQuery(p, line, opt) ==
    IF HasPrefix(line, "# admin") THEN parseAdmin(p, line, opt)
    ELSE IF Re(line).headerRe
    THEN LET r == sendEvent([p EXCEPT !.inHeader = TRUE, !.inQuery = FALSE],
                            TRUE, FALSE)
         IN  IF r.act = "next"
             THEN [parseQueryThen(r.p, line, opt) EXCEPT !.discard = r.discard]
             ELSE [r EXCEPT !.then = line]
    ELSE Ret(parseQueryLine(p, line), "next")

parseHeader(p, line, opt) ==
    IF ~Re(line).headerRe
    THEN parseQuery([p EXCEPT !.inHeader = FALSE, !.inQuery = TRUE], line, opt)
    ELSE parseHeaderLine(p, line, opt)

(***************************************************************************)
(* The input.  A fixed file is its bytes; otherwise the environment        *)
(* supplies the file line by line, at most MaxLines lines from Lines.      *)
(***************************************************************************)
\* test/slow-logs/slow001.log as TestParserSlowLog001 and
\* TestParserSlowLog001StartOffset read it: three meta lines, 199 bytes in
\* all, and two events
Slow001 ==
    "/usr/sbin/mysqld, Version: 5.0.38-Ubuntu_0ubuntu1.1-log (Ubuntu 7.04 distribution). started with:\n"
    \o "Tcp port: 3306  Unix socket: /var/run/mysqld/mysqld.sock\n"
    \o "Time                 Id Command    Argument\n"
    \o "# Time: 071015 21:43:52\n"
    \o "# User@Host: root[root] @ localhost []\n"
    \o "# Query_time: 2  Lock_time: 0  Rows_sent: 1  Rows_examined: 0\n"
    \o "use test;\n"
    \o "select sleep(2) from n;\n"
    \o "# Time: 071015 21:45:10\n"
    \o "# User@Host: root[root] @ localhost []\n"
    \o "# Query_time: 2  Lock_time: 0  Rows_sent: 1  Rows_examined: 0\n"
    \o "use sakila;\n"
    \o "select sleep(2) from test.n;\n"

\* Options a caller passes to Start
StartOffsets == {0, 359}
Filters == {{}, {"Quit"}}
Options == [StartOffset : StartOffsets, FilterAdminCommand : Filters]

\* bufio.Reader.ReadString('\n') on the unread bytes: the bytes up to and
\* including the first "\n", or all of them and io.EOF when there is none
ReadString(data) ==
    LET k == Index(data, 1, "\n")
    IN  IF k = 0 THEN [line |-> data, err |-> "EOF", rest |-> ""]
        ELSE [line |-> SubSeq(data, 1, k), err |-> "", rest |-> From(data, k + 1)]

\* the meta-line test with the mysqld banner as its only case
IsMetaBanner(line) ==
    LET lineLen == Len(line)
    IN  lineLen >= 20 /\ Char(line, 1) = "/" /\
                         SubSeq(line, lineLen - 5, lineLen) = "with:\n"

\* the meta-line test of parse, on a line with its "\n"
IsMeta(line) ==
    LET lineLen == Len(line)
    IN  lineLen >= 20 /\ \/ Char(line, 1) = "/" /\
                            SubSeq(line, lineLen - 5, lineLen) = "with:\n"
                         \/ SubSeq(line, 1, 5) = "Time "
                         \/ SubSeq(line, 1, 4) = "Tcp "
                         \/ SubSeq(line, 1, 4) = "TCP "

\* the byte counters with bytesRead assigned instead of accumulated
CountUnaccumulated(p, line) ==
    [p EXCEPT !.bytesRead = Len(line), !.lineOffset = 0]

\* the byte counters without the adjustment of a non-zero lineOffset
CountUnadjusted(p, line) ==
    [p EXCEPT !.bytesRead = p.bytesRead + Len(line), !.lineOffset = p.bytesRead]

\* the byte counters of parse after reading line (with its "\n")
Count(p, line) ==
    LET lineLen == Len(line)
        bytesRead == p.bytesRead + lineLen
        lineOffset == bytesRead - lineLen
    IN  [p EXCEPT !.bytesRead = bytesRead,
                  !.lineOffset = IF lineOffset # 0 THEN lineOffset + 1
                                 ELSE lineOffset]

\* the body of the scanner loop for one line read (with its "\n")
parseLine(p0, line, opt) ==
    LET p == Count(p0, line)
        text == SubSeq(line, 1, Len(line) - 1)
    IN  IF IsMeta(line) THEN Ret(p, "next")
        ELSE IF p.inHeader THEN parseHeader(p, text, opt)
        ELSE IF p.inQuery THEN parseQuery(p, text, opt)
        ELSE IF Re(text).headerRe
        THEN parseHeader([p EXCEPT !.inHeader = TRUE, !.inQuery = FALSE],
                         text, opt)
        ELSE Ret(p, "next")

\* parseEOF without the test of queryLines
parseEOFUnguarded(p) == sendEvent(p, FALSE, FALSE)

\* parse after the scanner loop
parseEOF(p) ==
    IF p.queryLines > 0 THEN sendEvent(p, FALSE, FALSE) ELSE Ret(p, "next")

(***************************************************************************)
(* The state machine of the specification (section 4.1.4), run beside the  *)
(* parser on the lines the parser does not filter as meta lines.  It       *)
(* keeps its state, the body lines of the event under construction, and    *)
(* in emit the event it emitted on the last line or at the end of input,   *)
(* as its body lines, Nil when it emitted none.                            *)
(***************************************************************************)
NewMachine == [state |-> "Idle", body |-> <<>>, emit |-> Nil]

\* query_lines of section 4.1.6 after the body lines from line i on, n being
\* its value before them: a `use` line that is the first query line and a
\* SET line do not count
RECURSIVE QueryLinesFrom(_, _, _)
QueryLinesFrom(body, i, n) ==
    IF i > Len(body) THEN n
    ELSE QueryLinesFrom(body, i + 1,
                        IF n = 0 /\ useRe(body[i]) # "" THEN n
                        ELSE IF setRe(body[i]) THEN n
                        ELSE n + 1)

QueryLines(body) == QueryLinesFrom(body, 1, 0)

\* section 4.1.7: the name of the command with a trailing `;` stripped; the
\* event is discarded when the name is filtered and emitted otherwise, and
\* the machine is Idle afterwards
MachineAdmin(m, L, filter) ==
    LET found == adminRe(L)
        name == IF found = <<>> THEN "" ELSE TrimSuffix(found[1], ";")
    IN  [state |-> "Idle", body |-> <<>>,
         emit |-> IF name \in filter THEN Nil ELSE [body |-> m.body]]

\* the transitions from InQuery on line L
MachineInQuery(m, L, filter) ==
    IF HasPrefix(L, "# admin") THEN MachineAdmin(m, L, filter)
    ELSE IF headerRe(L)
    THEN [state |-> "InHeader", body |-> <<>>, emit |-> [body |-> m.body]]
    ELSE [state |-> "InQuery", body |-> Append(m.body, L), emit |-> Nil]

\* the transitions from InHeader on line L
MachineInHeader(m, L, filter) ==
    IF headerRe(L)
    THEN IF HasPrefix(L, "# admin") THEN MachineAdmin(m, L, filter)
         ELSE [m EXCEPT !.state = "InHeader", !.emit = Nil]
    ELSE MachineInQuery(m, L, filter)

\* the machine after the non-meta line L
MachineLine(m, L, filter) ==
    IF m.state = "Idle"
    THEN IF headerRe(L) THEN MachineInHeader(m, L, filter)
         ELSE [m EXCEPT !.emit = Nil]
    ELSE IF m.state = "InHeader" THEN MachineInHeader(m, L, filter)
    ELSE MachineInQuery(m, L, filter)

\* the machine at the end of input
MachineEOF(m) ==
    IF QueryLines(m.body) >= 1
    THEN [state |-> "Idle", body |-> <<>>, emit |-> [body |-> m.body]]
    ELSE [m EXCEPT !.emit = Nil]


(***************************************************************************)
(* Numbers of the aggregator.  A uint64 is four limbs of 16 bits, the most *)
(* significant first, so that sums and products wrap at 2^64 as Go's do.   *)
(* A float64 of seconds is a whole number of microseconds, as in the       *)
(* parser, and a quotient of two of them is the fraction num/den.          *)
(***************************************************************************)
Limb == 65536

\* the uint64 of a number below 2^31
U64(n) == <<0, 0, n \div Limb, n % Limb>>

MaxUint64 == <<Limb - 1, Limb - 1, Limb - 1, Limb - 1>>

\* x + y
U64Add(x, y) ==
    LET s4 == x[4] + y[4]
        s3 == x[3] + y[3] + s4 \div Limb
        s2 == x[2] + y[2] + s3 \div Limb
        s1 == x[1] + y[1] + s2 \div Limb
    IN  <<s1 % Limb, s2 % Limb, s3 % Limb, s4 % Limb>>

\* x * uint64(k), for a k below 2^15
U64Mul(x, k) ==
    LET m4 == x[4] * k
        m3 == x[3] * k + m4 \div Limb
        m2 == x[2] * k + m3 \div Limb
        m1 == x[1] * k + m2 \div Limb
    IN  <<m1 % Limb, m2 % Limb, m3 % Limb, m4 % Limb>>

\* x / uint64(k), for a k from 1 to below 2^15
U64Div(x, k) ==
    LET n1 == x[1]
        n2 == (n1 % k) * Limb + x[2]
        n3 == (n2 % k) * Limb + x[3]
        n4 == (n3 % k) * Limb + x[4]
    IN  <<n1 \div k, n2 \div k, n3 \div k, n4 \div k>>

\* x < y
U64Less(x, y) ==
    \E i \in 1..4 : x[i] < y[i] /\ \A j \in 1..(i - 1) : x[j] = y[j]

U64Leq(x, y) == ~U64Less(y, x)

RECURSIVE byUint64(_)
\* sort.Sort(byUint64(vals)): ascending
byUint64(vals) ==
    IF vals = <<>> THEN <<>>
    ELSE LET least == CHOOSE i \in 1..Len(vals) :
                          \A j \in 1..Len(vals) : U64Leq(vals[i], vals[j])
         IN  <<vals[least]>> \o
             byUint64(SubSeq(vals, 1, least - 1) \o
                      SubSeq(vals, least + 1, Len(vals)))

RECURSIVE Float64s(_)
\* sort.Float64s(vals): ascending
Float64s(vals) ==
    IF vals = <<>> THEN <<>>
    ELSE LET least == CHOOSE i \in 1..Len(vals) :
                          \A j \in 1..Len(vals) : vals[i] <= vals[j]
         IN  <<vals[least]>> \o
             Float64s(SubSeq(vals, 1, least - 1) \o
                      SubSeq(vals, least + 1, Len(vals)))

(***************************************************************************)
(* Metrics.                                                                *)
(***************************************************************************)
NewTimeStats ==
    [vals |-> <<>>, Sum |-> 0, Min |-> 0, Avg |-> [num |-> 0, den |-> 1],
     Med |-> 0, P95 |-> 0, Max |-> 0, outlierSum |-> 0]

NewNumberStats ==
    [vals |-> <<>>, Sum |-> U64(0), Min |-> U64(0), Avg |-> U64(0),
     Med |-> U64(0), P95 |-> U64(0), Max |-> U64(0), outlierSum |-> U64(0)]

NewBoolStats == [Sum |-> U64(0), outlierSum |-> U64(0)]

NewMetrics == [TimeMetrics |-> <<>>, NumberMetrics |-> <<>>, BoolMetrics |-> <<>>]

\* m[k] of a map of stats, the stats made when k has not been seen
Seen(m, k, new) == IF k \in DOMAIN m THEN m[k] ELSE new

\* Metrics.AddEvent
MetricsAddEvent(m, e, outlier) ==
    LET time(k) ==
            LET val == e.TimeMetrics[k]
            IN  [Seen(m.TimeMetrics, k, NewTimeStats) EXCEPT
                    !.outlierSum = IF outlier THEN @ + val ELSE @,
                    !.Sum = IF outlier THEN @ ELSE @ + val,
                    !.vals = Append(@, val)]
        number(k) ==
            LET val == e.NumberMetrics[k]
            IN  [Seen(m.NumberMetrics, k, NewNumberStats) EXCEPT
                    !.outlierSum = IF outlier THEN U64Add(@, val) ELSE @,
                    !.Sum = IF outlier THEN @ ELSE U64Add(@, val),
                    !.vals = Append(@, val)]
        bool(k) ==
            LET val == e.BoolMetrics[k]
            IN  [Seen(m.BoolMetrics, k, NewBoolStats) EXCEPT
                    !.outlierSum = IF val /\ outlier THEN U64Add(@, U64(1)) ELSE @,
                    !.Sum = IF val /\ ~outlier THEN U64Add(@, U64(1)) ELSE @]
    IN  [TimeMetrics |->
             [k \in DOMAIN m.TimeMetrics \cup DOMAIN e.TimeMetrics |->
                 IF k \in DOMAIN e.TimeMetrics THEN time(k)
                 ELSE m.TimeMetrics[k]],
         NumberMetrics |->
             [k \in DOMAIN m.NumberMetrics \cup DOMAIN e.NumberMetrics |->
                 IF k \in DOMAIN e.NumberMetrics THEN number(k)
                 ELSE m.NumberMetrics[k]],
         BoolMetrics |->
             [k \in DOMAIN m.BoolMetrics \cup DOMAIN e.BoolMetrics |->
                 IF k \in DOMAIN e.BoolMetrics THEN bool(k)
                 ELSE m.BoolMetrics[k]]]

\* the statistics of a TimeStats, as Metrics.Finalize computes them
TimeFinalize(s, rateLimit) ==
    LET vals == Float64s(s.vals)
        cnt == Len(vals)
    IN  [vals |-> vals,
         Min |-> vals[1],
         Avg |-> [num |-> s.Sum + s.outlierSum, den |-> cnt],
         Med |-> vals[(50 * cnt) \div 100 + 1],
         P95 |-> vals[(95 * cnt) \div 100 + 1],
         Max |-> vals[cnt],
         Sum |-> s.Sum * rateLimit + s.outlierSum,
         outlierSum |-> s.outlierSum]

\* the statistics of a NumberStats without the sort of its values
NumberFinalizeUnsorted(s, rateLimit) ==
    LET vals == s.vals
        cnt == Len(vals)
    IN  [vals |-> vals,
         Min |-> vals[1],
         Avg |-> U64Div(U64Add(s.Sum, s.outlierSum), cnt),
         Med |-> vals[(50 * cnt) \div 100 + 1],
         P95 |-> vals[(95 * cnt) \div 100 + 1],
         Max |-> vals[cnt],
         Sum |-> U64Add(U64Mul(s.Sum, rateLimit), s.outlierSum),
         outlierSum |-> s.outlierSum]

\* the statistics of a NumberStats, as Metrics.Finalize computes them
NumberFinalize(s, rateLimit) ==
    LET vals == byUint64(s.vals)
        cnt == Len(vals)
    IN  [vals |-> vals,
         Min |-> vals[1],
         Avg |-> U64Div(U64Add(s.Sum, s.outlierSum), cnt),
         Med |-> vals[(50 * cnt) \div 100 + 1],
         P95 |-> vals[(95 * cnt) \div 100 + 1],
         Max |-> vals[cnt],
         Sum |-> U64Add(U64Mul(s.Sum, rateLimit), s.outlierSum),
         outlierSum |-> s.outlierSum]

\* Metrics.Finalize
MetricsFinalize(m, rateLimit0) ==
    LET rateLimit == IF rateLimit0 = 0 THEN 1 ELSE rateLimit0
    IN  [TimeMetrics |->
             [k \in DOMAIN m.TimeMetrics |->
                 TimeFinalize(m.TimeMetrics[k], rateLimit)],
         NumberMetrics |->
             [k \in DOMAIN m.NumberMetrics |->
                 NumberFinalize(m.NumberMetrics[k], rateLimit)],
         BoolMetrics |->
             IF DOMAIN m.BoolMetrics # {}
             THEN [k \in DOMAIN m.BoolMetrics |->
                      [m.BoolMetrics[k] EXCEPT
                          !.Sum = U64Add(U64Mul(@, rateLimit),
                                         m.BoolMetrics[k].outlierSum)]]
             ELSE Nil]

(***************************************************************************)
(* Classes.                                                                *)
(***************************************************************************)
MAX_EXAMPLE_BYTES == 1024 * 10

NewClass(id, fingerprint, sample) ==
    [Id |-> id, Fingerprint |-> fingerprint, Metrics |-> NewMetrics,
     TotalQueries |-> U64(0), UniqueQueries |-> 0,
     Example |-> [QueryTime |-> 0, Db |-> "", Query |-> "", Ts |-> ""],
     outliers |-> U64(0), lastDb |-> "", sample |-> sample,
     maxQueryTime |-> 0, MaxQueryCommentMetadata |-> <<>>]

\* Class.AddEvent taking as example an event that equals the greatest
\* Query_time so far
ClassAddEventLastGreatest(c, e, outlier) ==
    LET ok == "Query_time" \in DOMAIN e.TimeMetrics
        n == e.TimeMetrics["Query_time"]
        counted ==
            [c EXCEPT
                !.outliers = IF outlier THEN U64Add(@, U64(1)) ELSE @,
                !.TotalQueries = IF outlier THEN @ ELSE U64Add(@, U64(1)),
                !.Metrics = MetricsAddEvent(@, e, outlier),
                !.lastDb = IF e.Db # "" THEN e.Db ELSE @]
        sampled ==
            IF counted.sample /\ ok /\ n >= counted.Example.QueryTime
            THEN [counted EXCEPT !.Example =
                     [QueryTime |-> n,
                      Db |-> IF e.Db # "" THEN e.Db ELSE counted.lastDb,
                      Query |-> e.Query,
                      Ts |-> e.Ts]]
            ELSE counted
    IN  IF ok /\ n > sampled.maxQueryTime
        THEN [sampled EXCEPT !.MaxQueryCommentMetadata = e.CommentMetadata]
        ELSE sampled

\* Class.AddEvent cutting a long query at MAX_EXAMPLE_BYTES before the dots
ClassAddEventCutLate(c, e, outlier) ==
    LET ok == "Query_time" \in DOMAIN e.TimeMetrics
        n == e.TimeMetrics["Query_time"]
        counted ==
            [c EXCEPT
                !.outliers = IF outlier THEN U64Add(@, U64(1)) ELSE @,
                !.TotalQueries = IF outlier THEN @ ELSE U64Add(@, U64(1)),
                !.Metrics = MetricsAddEvent(@, e, outlier),
                !.lastDb = IF e.Db # "" THEN e.Db ELSE @]
        sampled ==
            IF counted.sample /\ ok /\ n > counted.Example.QueryTime
            THEN [counted EXCEPT !.Example =
                     [QueryTime |-> n,
                      Db |-> IF e.Db # "" THEN e.Db ELSE counted.lastDb,
                      Query |-> IF Len(e.Query) > MAX_EXAMPLE_BYTES
                                THEN SubSeq(e.Query, 1, MAX_EXAMPLE_BYTES)
                                     \o "..."
                                ELSE e.Query,
                      Ts |-> e.Ts]]
            ELSE counted
    IN  IF ok /\ n > sampled.maxQueryTime
        THEN [sampled EXCEPT !.MaxQueryCommentMetadata = e.CommentMetadata]
        ELSE sampled

\* Class.AddEvent
ClassAddEvent(c, e, outlier) ==
    LET ok == "Query_time" \in DOMAIN e.TimeMetrics
        n == e.TimeMetrics["Query_time"]
        counted ==
            [c EXCEPT
                !.outliers = IF outlier THEN U64Add(@, U64(1)) ELSE @,
                !.TotalQueries = IF outlier THEN @ ELSE U64Add(@, U64(1)),
                !.Metrics = MetricsAddEvent(@, e, outlier),
                !.lastDb = IF e.Db # "" THEN e.Db ELSE @]
        sampled ==
            IF counted.sample /\ ok /\ n > counted.Example.QueryTime
            THEN [counted EXCEPT !.Example =
                     [QueryTime |-> n,
                      Db |-> IF e.Db # "" THEN e.Db ELSE counted.lastDb,
                      Query |-> IF Len(e.Query) > MAX_EXAMPLE_BYTES
                                THEN SubSeq(e.Query, 1, MAX_EXAMPLE_BYTES - 3)
                                     \o "..."
                                ELSE e.Query,
                      Ts |-> e.Ts]]
            ELSE counted
    IN  IF ok /\ n > sampled.maxQueryTime
        THEN [sampled EXCEPT !.MaxQueryCommentMetadata = e.CommentMetadata]
        ELSE sampled

\* Class.Finalize with the outliers scaled as the other events are
ClassFinalizeAllScaled(c, rateLimit0) ==
    LET rateLimit == IF rateLimit0 = 0 THEN 1 ELSE rateLimit0
    IN  [c EXCEPT
            !.Metrics = MetricsFinalize(@, rateLimit),
            !.TotalQueries = U64Mul(U64Add(@, c.outliers), rateLimit),
            !.Example = IF @.QueryTime = 0 THEN Nil ELSE @]

\* Class.Finalize
ClassFinalize(c, rateLimit0) ==
    LET rateLimit == IF rateLimit0 = 0 THEN 1 ELSE rateLimit0
    IN  [c EXCEPT
            !.Metrics = MetricsFinalize(@, rateLimit),
            !.TotalQueries = U64Add(U64Mul(@, rateLimit), c.outliers),
            !.Example = IF @.QueryTime = 0 THEN Nil ELSE @]

\* a panic of the caller's goroutine
Panic == [panic |-> TRUE]

\* the keys of a map, none when the map is nil
KeysOf(m) == IF m = Nil THEN {} ELSE DOMAIN m

\* float64(x) and the divisor x, for an x below 2^31
ToInt(x) == x[3] * Limb + x[4]

\* the body of the loop of NewAggregateClass: memberClass is merged into
\* aggClass; an integer division by zero panics
MergeMember(aggClass, memberClass) ==
    LET total == U64Add(aggClass.TotalQueries, memberClass.TotalQueries)
        mine == aggClass.Metrics
        new == memberClass.Metrics
        time(k) ==
            IF k \notin DOMAIN mine.TimeMetrics THEN new.TimeMetrics[k]
            ELSE IF k \notin KeysOf(new.TimeMetrics) THEN mine.TimeMetrics[k]
            ELSE LET stats == mine.TimeMetrics[k]
                     newStats == new.TimeMetrics[k]
                     sum == stats.Sum + newStats.Sum
                 IN  [stats EXCEPT
                         !.Sum = sum,
                         !.Avg = [num |-> sum, den |-> ToInt(total)],
                         !.Min = IF newStats.Min < @ THEN newStats.Min ELSE @,
                         !.Max = IF newStats.Max > @ THEN newStats.Max ELSE @]
        number(k) ==
            IF k \notin DOMAIN mine.NumberMetrics THEN new.NumberMetrics[k]
            ELSE IF k \notin KeysOf(new.NumberMetrics) THEN mine.NumberMetrics[k]
            ELSE LET stats == mine.NumberMetrics[k]
                     newStats == new.NumberMetrics[k]
                     sum == U64Add(stats.Sum, newStats.Sum)
                 IN  [stats EXCEPT
                         !.Sum = sum,
                         !.Avg = U64Div(sum, ToInt(total)),
                         !.Min = IF U64Less(newStats.Min, @)
                                 THEN newStats.Min ELSE @,
                         !.Max = IF U64Less(@, newStats.Max)
                                 THEN newStats.Max ELSE @]
        bool(k) ==
            IF k \notin DOMAIN mine.BoolMetrics THEN new.BoolMetrics[k]
            ELSE IF k \notin KeysOf(new.BoolMetrics) THEN mine.BoolMetrics[k]
            ELSE [mine.BoolMetrics[k] EXCEPT
                     !.Sum = U64Add(@, new.BoolMetrics[k].Sum)]
    IN  IF total = U64(0)
           /\ DOMAIN mine.NumberMetrics \cap KeysOf(new.NumberMetrics) # {}
        THEN Panic
        ELSE [aggClass EXCEPT
                 !.TotalQueries = total,
                 !.Metrics =
                     [TimeMetrics |->
                          [k \in DOMAIN mine.TimeMetrics
                                 \cup KeysOf(new.TimeMetrics) |-> time(k)],
                      NumberMetrics |->
                          [k \in DOMAIN mine.NumberMetrics
                                 \cup KeysOf(new.NumberMetrics) |-> number(k)],
                      BoolMetrics |->
                          [k \in DOMAIN mine.BoolMetrics
                                 \cup KeysOf(new.BoolMetrics) |-> bool(k)]]]

\* NewAggregateClass with a loop that begins at the second member
NewAggregateClassSkipFirst(id, fingerprint, members) ==
    LET RECURSIVE Range(_, _)
        Range(aggClass, i) ==
            IF aggClass = Panic \/ i > Len(members) THEN aggClass
            ELSE Range(MergeMember(aggClass, members[i]), i + 1)
    IN  Range([Id |-> id, Fingerprint |-> fingerprint,
               Metrics |-> NewMetrics, TotalQueries |-> U64(0),
               UniqueQueries |-> Len(members), Example |-> Nil,
               outliers |-> U64(0), lastDb |-> "", sample |-> FALSE,
               maxQueryTime |-> 0, MaxQueryCommentMetadata |-> Nil],
              2)

\* NewAggregateClass
NewAggregateClass(id, fingerprint, members) ==
    LET RECURSIVE Range(_, _)
        Range(aggClass, i) ==
            IF aggClass = Panic \/ i > Len(members) THEN aggClass
            ELSE Range(MergeMember(aggClass, members[i]), i + 1)
    IN  Range([Id |-> id, Fingerprint |-> fingerprint,
               Metrics |-> NewMetrics, TotalQueries |-> U64(0),
               UniqueQueries |-> Len(members), Example |-> Nil,
               outliers |-> U64(0), lastDb |-> "", sample |-> FALSE,
               maxQueryTime |-> 0, MaxQueryCommentMetadata |-> Nil],
              1)

\* aggClass.Metrics.X[newMetric] = newStats: the entry points to the stats
\* of member i themselves
StoredStatsShared(i) == i

\* m := *newStats; aggClass.Metrics.X[newMetric] = &m: the object that an
\* entry made on member i points to, 0 for one that NewAggregateClass
\* allocated and i for the stats of the member
StoredStats(i) == 0

\* The member classes as the caller finds them after NewAggregateClass,
\* each member being an object of its own.  The loop keeps, with aggClass
\* and the members, the object that each entry of aggClass's maps points
\* to; a statement that writes through an entry (stats.Sum += ...) writes
\* the object, and so a member whose stats it is.
NewAggregateClassMembers(id, fingerprint, members) ==
    LET Kinds == {"TimeMetrics", "NumberMetrics", "BoolMetrics"}
        RECURSIVE Range(_, _)
        Range(st, i) ==
            IF i > Len(members) THEN st.members
            ELSE LET next == MergeMember(st.aggClass, st.members[i])
                     at == [kind \in Kinds |->
                               [k \in KeysOf(next.Metrics[kind]) |->
                                   IF k \in DOMAIN st.at[kind]
                                   THEN st.at[kind][k]
                                   ELSE StoredStats(i)]]
                     written(j) ==
                         LET old == st.members[j].Metrics
                         IN  [st.members[j] EXCEPT !.Metrics =
                                 [kind \in Kinds |->
                                     IF old[kind] = Nil THEN Nil
                                     ELSE [k \in DOMAIN old[kind] |->
                                              IF k \in DOMAIN at[kind]
                                                 /\ at[kind][k] = j
                                              THEN next.Metrics[kind][k]
                                              ELSE old[kind][k]]]]
                 IN  IF next = Panic THEN st.members
                     ELSE Range([aggClass |-> next,
                                 members |-> [j \in 1..Len(members) |->
                                                 written(j)],
                                 at |-> at],
                                i + 1)
    IN  Range([aggClass |-> [Id |-> id, Fingerprint |-> fingerprint,
                             Metrics |-> NewMetrics, TotalQueries |-> U64(0),
                             UniqueQueries |-> Len(members), Example |-> Nil,
                             outliers |-> U64(0), lastDb |-> "",
                             sample |-> FALSE, maxQueryTime |-> 0,
                             MaxQueryCommentMetadata |-> Nil],
                members |-> members,
                at |-> [kind \in Kinds |-> <<>>]],
              1)

(***************************************************************************)
(* The aggregator.                                                         *)
(***************************************************************************)
\* NewAggregator with a global class that takes samples
NewAggregatorGlobalSampled(samples, utcOffset, outlierTime) ==
    [samples |-> samples, utcOffset |-> utcOffset,
     outlierTime |-> outlierTime, global |-> NewClass("", "", samples),
     classes |-> <<>>, rateLimit |-> 0]

NewAggregator(samples, utcOffset, outlierTime) ==
    [samples |-> samples, utcOffset |-> utcOffset,
     outlierTime |-> outlierTime, global |-> NewClass("", "", FALSE),
     classes |-> <<>>, rateLimit |-> 0]

\* event.TimeMetrics["Query_time"] > a.outlierTime, a missing key reading 0
\* the outlier test without its condition on outlierTime
IsOutlierUnguarded(a, event) ==
    Seen(event.TimeMetrics, "Query_time", 0) > a.outlierTime

\* the outlier test of Aggregator.AddEvent
IsOutlier(a, event) ==
    /\ a.outlierTime > 0
    /\ Seen(event.TimeMetrics, "Query_time", 0) > a.outlierTime

\* Aggregator.AddEvent with the global class told of no outlier
AggregatorAddEventGlobalPlain(a, event, id, fingerprint) ==
    LET outlier == IsOutlier(a, event)
        class == Seen(a.classes, id, NewClass(id, fingerprint, a.samples))
    IN  [a EXCEPT
            !.rateLimit = event.RateLimit,
            !.global = ClassAddEvent(@, event, FALSE),
            !.classes = Put(@, id, ClassAddEvent(class, event, outlier))]

\* Aggregator.AddEvent keeping the first rate limit that is not 0
AggregatorAddEventFirstLimit(a, event, id, fingerprint) ==
    LET outlier == IsOutlier(a, event)
        class == Seen(a.classes, id, NewClass(id, fingerprint, a.samples))
    IN  [a EXCEPT
            !.rateLimit = IF @ # 0 THEN @ ELSE event.RateLimit,
            !.global = ClassAddEvent(@, event, outlier),
            !.classes = Put(@, id, ClassAddEvent(class, event, outlier))]

\* Aggregator.AddEvent
AggregatorAddEvent(a, event, id, fingerprint) ==
    LET outlier == IsOutlier(a, event)
        class == Seen(a.classes, id, NewClass(id, fingerprint, a.samples))
    IN  [a EXCEPT
            !.rateLimit = event.RateLimit,
            !.global = ClassAddEvent(@, event, outlier),
            !.classes = Put(@, id, ClassAddEvent(class, event, outlier))]

\* getnum of package time: the digits of a number at s[i], one or two of
\* them unless fixed, and none when there is no number
Getnum(s, i, fixed) ==
    IF i > Len(s) \/ Char(s, i) \notin Digit THEN ""
    ELSE IF i + 1 > Len(s) \/ Char(s, i + 1) \notin Digit
    THEN (IF fixed THEN "" ELSE Char(s, i))
    ELSE SubSeq(s, i, i + 1)

\* the days of a month
DaysIn(month, year) ==
    IF month = 2
    THEN (IF year % 4 = 0 /\ (year % 100 # 0 \/ year % 400 = 0) THEN 29 ELSE 28)
    ELSE IF month \in {4, 6, 9, 11} THEN 30 ELSE 31

\* time.Parse("060102 15:04:05", ts) and, when it succeeds,
\* t.Add(utcOffset).Format("2006-01-02 15:04:05"), for a year of two
\* digits and the offset 0 of the model; "" when the parse fails.  The
\* space of the layout stands for one space or more, and a fraction may
\* follow the seconds.
ConvertTs(ts, utcOffset) ==
    LET yy == Getnum(ts, 1, TRUE)
        mm == Getnum(ts, 3, TRUE)
        dd == Getnum(ts, 5, TRUE)
        h1 == SkipWhile(ts, 7, {" "})
        hh == Getnum(ts, h1, FALSE)
        colon == h1 + Len(hh)
        mi == Getnum(ts, colon + 1, TRUE)
        ss == Getnum(ts, colon + 4, TRUE)
        rest == From(ts, colon + 6)
        year == (IF DecVal(yy) >= 69 THEN 1900 ELSE 2000) + DecVal(yy)
        parsed ==
            /\ yy # "" /\ mm # "" /\ dd # "" /\ hh # "" /\ mi # "" /\ ss # ""
            /\ At(ts, 7, " ") /\ At(ts, colon, ":") /\ At(ts, colon + 3, ":")
            /\ \/ rest = ""
               \/ /\ Len(rest) >= 2
                  /\ Char(rest, 1) \in {".", ","}
                  /\ AllDigits(From(rest, 2))
            /\ DecVal(mm) \in 1..12
            /\ DecVal(dd) \in 1..DaysIn(DecVal(mm), year)
            /\ DecVal(hh) < 24 /\ DecVal(mi) < 60 /\ DecVal(ss) < 60
    IN  IF parsed /\ utcOffset = 0
        THEN (IF DecVal(yy) >= 69 THEN "19" ELSE "20") \o yy \o "-" \o mm
             \o "-" \o dd \o " " \o (IF Len(hh) = 1 THEN "0" ELSE "") \o hh
             \o ":" \o mi \o ":" \o ss
        ELSE ""

\* Aggregator.Finalize: the aggregator it leaves
AggregatorFinalize(a) ==
    [a EXCEPT
        !.global = [ClassFinalize(@, a.rateLimit) EXCEPT
                       !.UniqueQueries = Cardinality(DOMAIN a.classes)],
        !.classes =
            [id \in DOMAIN a.classes |->
                LET class == [ClassFinalize(a.classes[id], a.rateLimit) EXCEPT
                                 !.UniqueQueries = 1]
                IN  IF class.Example # Nil /\ class.Example.Ts # ""
                    THEN [class EXCEPT !.Example.Ts = ConvertTs(@, a.utcOffset)]
                    ELSE class]]

(***************************************************************************)
(* State.                                                                  *)
(***************************************************************************)
VARIABLES
    src,        \* the file: [data |-> its unread bytes, lines |-> the lines the
                \* environment may still append to it]
    nread,      \* lines the environment has supplied
    opt,        \* FileParser.opt
    started,    \* FileParser.started
    stopChan,   \* "open" or "closed"
    eventChan,  \* "open" or "closed"
    err,        \* FileParser.err: "" (nil), "read" or "crash"
    p,          \* the fields of FileParser the parser goroutine works on
    pc,         \* where the parser goroutine is
    pend,       \* while it is blocked in sendEvent: what follows the send
    ended,      \* why the scanner loop ended: "", "eof", "stop", "read", "panic"
    delivered,  \* the events the consumer has received, in order
    origins,    \* for each, the byte position of its first header line
    hdrPos,     \* byte position of the first header line of the last event
                \* begun, -1 when none has begun
    pos,        \* byte position in the file of the next line to read
    afterStop,  \* events received after a Stop that closed stopChan returned
    dropped,    \* events offered and given up because of the stop signal
    discarded,  \* events sendEvent threw away for want of a Query_time
    closes,     \* executions of close(p.eventChan)
    startRet,   \* what the last call of Start returned: "" before any call,
                \* "nil", "seek" (the error of Seek) or "ErrStarted"
    goroutines, \* executions of go p.parse()
    last,       \* the last line read, without its "\n"
    stopPanic,  \* a call of Stop has panicked
    machine,    \* the state machine of the specification after the lines read
    agg,        \* the Aggregator
    added,      \* the calls of Aggregator.AddEvent so far: the event, the
                \* class ID and whether the event counted as an outlier
    result,     \* what Aggregator.Finalize returned, Nil before the call
    merged      \* the call of NewAggregateClass: the members given, the
                \* class returned or the panic, and the members after the
                \* call; Nil before the call

\* the variables of the parser and of its callers
pvars == <<src, nread, opt, started, stopChan, eventChan, err, p, pc, pend,
           ended, delivered, origins, hdrPos, pos, afterStop, dropped,
           discarded, closes, startRet, goroutines, last, stopPanic,
           machine>>

\* the variables of the aggregator and of its caller
avars == <<agg, added, result, merged>>

vars == <<pvars, avars>>

NoPend == [inHeader |-> FALSE, inQuery |-> FALSE, then |-> "", eof |-> FALSE,
           origin |-> -1]

\* A parser as NewFileParser returns it, on one of files
InitParser(files) ==
    /\ src \in files
    /\ nread = 0
    /\ opt = [StartOffset |-> 0, FilterAdminCommand |-> {}]
    /\ started = FALSE
    /\ stopChan = "open"
    /\ eventChan = "open"
    /\ err = ""
    /\ p = NewFileParser
    /\ pc = "idle"
    /\ pend = NoPend
    /\ ended = ""
    /\ delivered = <<>>
    /\ origins = <<>>
    /\ hdrPos = -1
    /\ pos = 0
    /\ afterStop = 0
    /\ dropped = 0
    /\ discarded = 0
    /\ closes = 0
    /\ startRet = ""
    /\ goroutines = 0
    /\ last = ""
    /\ stopPanic = FALSE
    /\ machine = NewMachine

\* a parser on one of files, and an aggregator nothing is added to
InitOn(files) ==
    /\ InitParser(files)
    /\ agg = NewAggregator(FALSE, 0, 0)
    /\ added = <<>>
    /\ result = Nil
    /\ merged = Nil

\* The file is slow001.log, or the environment writes it from Lines.
Init == InitOn({[data |-> "", lines |-> Lines], [data |-> Slow001, lines |-> {}]})

\* The lines of the runs whose progress is checked: a header with
\* Query_time, a query, and an admin line that makes parseAdmin panic.
LiveLines == {"# Query_time: 2  Lock_time: 0", "select 1;", "# admin"}

InitLive == InitOn({[data |-> "", lines |-> LiveLines]})

\* The lines of the runs with meta lines: those of LiveLines, the port and
\* socket line of a log's head, and a line that begins like it but has
\* fewer than 20 bytes.
MetaLines ==
    LiveLines \cup {"Tcp port: 3306  Unix socket: /var/run/mysqld/mysqld.sock",
                    "Tcp x"}

InitMeta == InitOn({[data |-> "", lines |-> MetaLines]})

InitBody == InitOn({[data |-> "", lines |-> BodyLines]})

\* The files whose last line has no "\n": up to MaxTailLines lines of
\* LiveLines, each with its "\n", and then the bytes of one more line
RECURSIVE FileOf(_)
FileOf(lines) ==
    IF lines = <<>> THEN "" ELSE Head(lines) \o "\n" \o FileOf(Tail(lines))

TailFiles ==
    {FileOf(pre) \o t :
        pre \in UNION {[1..n -> LiveLines] : n \in 0..MaxTailLines},
        t \in LiveLines}

InitTail == InitOn({[data |-> f, lines |-> {}] : f \in TailFiles})

(***************************************************************************)
(* The callers: Start and Stop.                                            *)
(***************************************************************************)
\* a seek that leaves the read position where it was
SeekIgnored(data, offset) == data

\* os.File.Seek(offset, SEEK_SET) on the bytes of the file
Seek(data, offset) == From(data, offset + 1)

\* Start on a parser that is not started, the seek succeeding
Start(o) ==
    /\ ~started
    /\ opt' = o
    /\ src' = [src EXCEPT !.data = IF o.StartOffset > 0
                                   THEN Seek(@, o.StartOffset) ELSE @]
    /\ p' = [p EXCEPT !.bytesRead = o.StartOffset]
    /\ pc' = "loop"
    /\ started' = TRUE
    /\ pos' = o.StartOffset
    /\ UNCHANGED <<nread, stopChan, eventChan, err, pend, ended, delivered,
                   origins, hdrPos, afterStop, dropped, discarded, closes,
                   stopPanic>>
    /\ startRet' = "nil"
    /\ goroutines' = goroutines + 1
    /\ UNCHANGED last
    /\ UNCHANGED machine
    /\ UNCHANGED avars

\* Start on a parser that is not started, the seek failing: the error is
\* returned and the parser stays as it was, but for opt
StartSeekError(o) ==
    /\ ~started
    /\ o.StartOffset > 0
    /\ opt' = o
    /\ UNCHANGED <<src, nread, started, stopChan, eventChan, err, p, pc, pend,
                   ended, delivered, origins, hdrPos, pos, afterStop, dropped,
                   discarded, closes, stopPanic>>
    /\ startRet' = "seek"
    /\ UNCHANGED <<goroutines, last>>
    /\ UNCHANGED machine
    /\ UNCHANGED avars

\* Start without its test of p.started
StartStartedAgain(o) ==
    /\ started
    /\ opt' = o
    /\ p' = [p EXCEPT !.bytesRead = o.StartOffset]
    /\ goroutines' = goroutines + 1
    /\ startRet' = "nil"
    /\ UNCHANGED <<src, nread, started, stopChan, eventChan, err, pc, pend,
                   ended, delivered, origins, hdrPos, pos, afterStop, dropped,
                   discarded, closes, last, stopPanic>>
    /\ UNCHANGED machine
    /\ UNCHANGED avars

\* Start on a started parser: ErrStarted is returned
StartStarted(o) ==
    /\ started
    /\ startRet' = "ErrStarted"
    /\ UNCHANGED <<src, nread, opt, started, stopChan, eventChan, err, p, pc,
                   pend, ended, delivered, origins, hdrPos, pos, afterStop,
                   dropped, discarded, closes, goroutines, last, stopPanic>>
    /\ UNCHANGED machine
    /\ UNCHANGED avars

\* Stop.  Closing a closed channel panics in the caller.
Stop ==
    /\ IF ~started THEN UNCHANGED <<stopChan, stopPanic>>
       ELSE IF stopChan = "open"
       THEN stopChan' = "closed" /\ UNCHANGED stopPanic
       ELSE stopPanic' = TRUE /\ UNCHANGED stopChan
    /\ UNCHANGED <<src, nread, opt, started, eventChan, err, p, pc, pend,
                   ended, delivered, origins, hdrPos, pos, afterStop, dropped,
                   discarded, closes>>
    /\ UNCHANGED <<startRet, goroutines, last>>
    /\ UNCHANGED machine
    /\ UNCHANGED avars

(***************************************************************************)
(* The parser goroutine: parse.                                            *)
(***************************************************************************)
\* parse returning without its deferred close(p.eventChan)
ReturnUnclosed(why) ==
    /\ ended' = why
    /\ pc' = IF why = "panic" THEN "recover" ELSE "done"
    /\ UNCHANGED <<eventChan, closes>>

\* parse returns or panics: its deferred close(p.eventChan) runs, and after
\* a panic its deferred recover is still to run
Return(why) ==
    /\ ended' = why
    /\ eventChan' = "closed"
    /\ closes' = closes + 1
    /\ pc' = IF why = "panic" THEN "recover" ELSE "done"

\* the scanner loop without its select on stopChan
ParseSelectUnchecked ==
    /\ pc = "loop"
    /\ pc' = "read"
    /\ UNCHANGED <<src, nread, opt, started, stopChan, eventChan, err, p, pend,
                   ended, delivered, origins, hdrPos, pos, afterStop, dropped,
                   discarded, closes, stopPanic>>
    /\ UNCHANGED <<startRet, goroutines, last>>
    /\ UNCHANGED machine
    /\ UNCHANGED avars

\* the select on stopChan at the top of the scanner loop
ParseSelect ==
    /\ pc = "loop"
    /\ IF stopChan = "closed"
       THEN Return("stop")
       ELSE pc' = "read" /\ UNCHANGED <<ended, eventChan, closes>>
    /\ UNCHANGED <<src, nread, opt, started, stopChan, err, p, pend,
                   delivered, origins, hdrPos, pos, afterStop, dropped,
                   discarded, stopPanic>>
    /\ UNCHANGED <<startRet, goroutines, last>>
    /\ UNCHANGED machine
    /\ UNCHANGED avars

\* the first header line of the last event begun once text, at byte
\* position at, has been read in parser state q, h being that line before:
\* a header line begins an event unless it is read in a header (section
\* 4.1.4 of the specification)
FirstHeader(h, q, text, at) ==
    IF Re(text).headerRe /\ ~q.inHeader THEN at ELSE h

\* what the goroutine does with the outcome r of a line or of end of input
Outcome(r, eof) ==
    /\ p' = r.p
    /\ discarded' = IF r.discard THEN discarded + 1 ELSE discarded
    /\ pend' = IF r.act = "send"
               THEN [inHeader |-> r.inHeader, inQuery |-> r.inQuery,
                     then |-> r.then, eof |-> eof, origin |-> hdrPos]
               ELSE NoPend
    /\ IF r.act = "send" THEN pc' = "send" /\ UNCHANGED <<ended, eventChan, closes>>
       ELSE IF r.act = "panic" THEN Return("panic")
       ELSE IF eof THEN Return("eof")
       ELSE pc' = "loop" /\ UNCHANGED <<ended, eventChan, closes>>

\* r.ReadString('\n') returns a line: the body of the scanner loop
ParseReadLine(data) ==
    LET rd == ReadString(data)
        text == SubSeq(rd.line, 1, Len(rd.line) - 1)
    IN  /\ rd.err = ""
        /\ Outcome(parseLine(p, rd.line, opt), FALSE)
        /\ src' = [src EXCEPT !.data = IF data = src.data THEN rd.rest ELSE ""]
        /\ nread' = nread + 1
        /\ pos' = pos + Len(rd.line)
        /\ last' = text
        /\ machine' = IF IsMeta(rd.line) THEN [machine EXCEPT !.emit = Nil]
                       ELSE MachineLine(machine, text, opt.FilterAdminCommand)
        /\ hdrPos' = IF IsMeta(rd.line) THEN hdrPos
                     ELSE FirstHeader(hdrPos, p, text, pos)
        /\ UNCHANGED err

\* ParseReadEOF with the bytes that ReadString returns beside io.EOF parsed
\* as one more line
ParseReadEOFTail(data) ==
    /\ ReadString(data).err = "EOF"
    /\ Outcome(parseEOF(IF data = "" THEN p
                        ELSE parseLine(p, data \o "\n", opt).p), TRUE)
    /\ src' = [src EXCEPT !.data = ""]
    /\ machine' = MachineEOF(machine)
    /\ UNCHANGED <<nread, pos, err, hdrPos, last>>

\* r.ReadString('\n') returns io.EOF: the loop breaks, and the event under
\* construction is sent when it has query lines
ParseReadEOF(data) ==
    /\ ReadString(data).err = "EOF"
    /\ Outcome(parseEOF(p), TRUE)
    /\ src' = [src EXCEPT !.data = ""]
    /\ machine' = MachineEOF(machine)
    /\ UNCHANGED <<nread, pos, err, hdrPos, last>>

\* a read error that ends parse without being recorded in p.err
ParseReadErrorUnrecorded ==
    /\ Return("read")
    /\ UNCHANGED <<src, nread, p, pend, hdrPos, pos, discarded, last, err,
                   machine>>

\* r.ReadString('\n') returns another error
ParseReadError ==
    /\ err' = "read"
    /\ Return("read")
    /\ UNCHANGED <<src, nread, p, pend, hdrPos, pos, discarded, last,
                   machine>>

\* what a read may find: the unread bytes of the file or, as long as the
\* environment has lines left, a line it appends
Unread ==
    {src.data} \cup (IF nread < MaxLines THEN {l \o "\n" : l \in src.lines}
                     ELSE {})

ParseRead ==
    /\ pc = "read"
    /\ \/ \E data \in Unread : ParseReadLine(data) \/ ParseReadEOF(data)
       \/ ParseReadError
    /\ UNCHANGED <<opt, started, stopChan, delivered, origins, afterStop,
                   dropped, stopPanic>>
    /\ UNCHANGED <<startRet, goroutines>>
    /\ UNCHANGED avars

\* AfterSend with the scanner loop going on to read without its select on
\* stopChan
AfterSendUnchecked ==
    LET q == sendEventDefer(p, pend.inHeader, pend.inQuery)
    IN  /\ p' = IF pend.then # "" THEN parseQueryThen(q, pend.then, opt).p ELSE q
        /\ IF pend.eof THEN Return("eof")
           ELSE pc' = "read" /\ UNCHANGED <<ended, eventChan, closes>>
        /\ pend' = NoPend
        /\ UNCHANGED <<src, nread, opt, started, stopChan, err, hdrPos, pos,
                       discarded, stopPanic>>
        /\ UNCHANGED <<startRet, goroutines, last>>
        /\ UNCHANGED machine
        /\ UNCHANGED avars

\* sendEvent after its select: the deferred function, and then whatever
\* the caller of sendEvent still does
AfterSend ==
    LET q == sendEventDefer(p, pend.inHeader, pend.inQuery)
    IN  /\ p' = IF pend.then # "" THEN parseQueryThen(q, pend.then, opt).p ELSE q
        /\ IF pend.eof THEN Return("eof")
           ELSE pc' = "loop" /\ UNCHANGED <<ended, eventChan, closes>>
        /\ pend' = NoPend
        /\ UNCHANGED <<src, nread, opt, started, stopChan, err, hdrPos, pos,
                       discarded, stopPanic>>
        /\ UNCHANGED <<startRet, goroutines, last>>
        /\ UNCHANGED machine
        /\ UNCHANGED avars

\* select case p.eventChan <- *p.event: the consumer receives the event
SendEvent ==
    /\ pc = "send"
    /\ delivered' = Append(delivered, p.event)
    /\ origins' = Append(origins, pend.origin)
    /\ afterStop' = IF stopChan = "closed" THEN afterStop + 1 ELSE afterStop
    /\ UNCHANGED dropped
    /\ AfterSend

\* sendEvent's select without its case <-p.stopChan
SendStoppedNever ==
    /\ FALSE
    /\ UNCHANGED vars

\* sendEvent's select with a default case in place of case <-p.stopChan
SendStoppedUnasked ==
    /\ pc = "send"
    /\ dropped' = dropped + 1
    /\ UNCHANGED <<delivered, origins, afterStop>>
    /\ AfterSend

\* select case <-p.stopChan: the send is given up
SendStopped ==
    /\ pc = "send"
    /\ stopChan = "closed"
    /\ dropped' = dropped + 1
    /\ UNCHANGED <<delivered, origins, afterStop>>
    /\ AfterSend

\* the deferred recover of parse, which runs after the deferred close
ParseRecover ==
    /\ pc = "recover"
    /\ err' = "crash"
    /\ pc' = "done"
    /\ UNCHANGED <<src, nread, opt, started, stopChan, eventChan, p, pend,
                   ended, delivered, origins, hdrPos, pos, afterStop, dropped,
                   discarded, closes, stopPanic>>
    /\ UNCHANGED <<startRet, goroutines, last>>
    /\ UNCHANGED machine
    /\ UNCHANGED avars

Next ==
    \/ \E o \in Options : Start(o)
    \/ \E o \in Options : StartSeekError(o)
    \/ Stop
    \/ ParseSelect
    \/ ParseRead
    \/ SendEvent
    \/ SendStopped
    \/ ParseRecover

Spec == Init /\ [][Next]_vars

\* Next, and callers that call Start on a started parser.
NextStart ==
    \/ Next
    \/ \E o \in Options : StartStarted(o)

SpecStart == InitLive /\ [][NextStart]_vars

SpecMeta == InitMeta /\ [][Next]_vars

SpecBody == InitBody /\ [][Next]_vars

SpecTail == InitTail /\ [][Next]_vars

\* The parser goroutine takes every step it can take; nothing is assumed of
\* the callers or of the consumer.
FairStop ==
    /\ InitLive
    /\ [][Next]_vars
    /\ WF_vars(ParseSelect)
    /\ WF_vars(ParseRead)
    /\ WF_vars(SendStopped)
    /\ WF_vars(ParseRecover)

\* As FairStop, with a consumer that receives every event offered to it.
FairConsumer ==
    /\ InitLive
    /\ [][Next]_vars
    /\ WF_vars(ParseSelect)
    /\ WF_vars(ParseRead)
    /\ WF_vars(SendEvent)
    /\ WF_vars(SendStopped)
    /\ WF_vars(ParseRecover)

(***************************************************************************)
(* The aggregator and its caller.                                          *)
(***************************************************************************)
\* The events the caller adds: one second and three seconds of
\* Query_time, a Rows_sent of 1, of 5 and of 18446744073709551615, QC_Hit
\* yes, no and absent, rate limits 0 and 2, comment metadata of two kinds
\* and none, and an event without metrics but Rows_sent.
Events ==
    {[NewEvent EXCEPT !.Query = "select 1", !.Db = "db1",
                      !.Ts = "071015 21:43:52",
                      !.CommentMetadata = "route" :> "fast",
                      !.TimeMetrics = "Query_time" :> 1000000,
                      !.NumberMetrics = "Rows_sent" :> U64(1),
                      !.BoolMetrics = "QC_Hit" :> TRUE],
     [NewEvent EXCEPT !.Query = "select 2", !.RateType = "query",
                      !.RateLimit = 2,
                      !.TimeMetrics = "Query_time" :> 1000000,
                      !.NumberMetrics = "Rows_sent" :> U64(5),
                      !.BoolMetrics = "QC_Hit" :> FALSE],
     [NewEvent EXCEPT !.Query = "select 3", !.RateType = "query",
                      !.RateLimit = 2, !.Ts = "071015 21:45:10",
                      !.CommentMetadata = "route" :> "slow",
                      !.TimeMetrics = "Query_time" :> 3000000,
                      !.NumberMetrics = "Rows_sent" :> U64(5),
                      !.BoolMetrics = "QC_Hit" :> TRUE],
     [NewEvent EXCEPT !.Query = "select 4", !.Db = "db2",
                      !.TimeMetrics = "Query_time" :> 3000000,
                      !.NumberMetrics = "Rows_sent" :> MaxUint64],
     [NewEvent EXCEPT !.Query = "select 5", !.RateType = "query",
                      !.RateLimit = 2,
                      !.NumberMetrics = "Rows_sent" :> MaxUint64]}

\* the class IDs the caller gives, each with its fingerprint
Fingerprint == [a |-> "select ?", b |-> "select ? from t"]

\* the outlier times of NewAggregator: none, and two seconds
OutlierTimes == {0, 2000000}

InitAggregator ==
    /\ InitParser({[data |-> "", lines |-> {}]})
    /\ agg \in {NewAggregator(samples, 0, outlierTime) :
                   samples \in BOOLEAN, outlierTime \in OutlierTimes}
    /\ added = <<>>
    /\ result = Nil
    /\ merged = Nil

\* a call of Aggregator.AddEvent
AddEvent(event, id, fingerprint) ==
    /\ result = Nil
    /\ Len(added) < MaxEvents
    /\ agg' = AggregatorAddEvent(agg, event, id, fingerprint)
    /\ added' = Append(added, [event |-> event, id |-> id,
                               outlier |-> IsOutlier(agg, event)])
    /\ UNCHANGED <<result, merged, pvars>>

\* the call of Aggregator.Finalize
Finalize ==
    /\ result = Nil
    /\ agg' = AggregatorFinalize(agg)
    /\ result' = [Global |-> agg'.global, Class |-> agg'.classes,
                  RateLimit |-> agg.rateLimit, Error |-> ""]
    /\ UNCHANGED <<added, merged, pvars>>

NextAggregator ==
    \/ \E event \in Events, id \in DOMAIN Fingerprint :
           AddEvent(event, id, Fingerprint[id])
    \/ Finalize

SpecAggregator == InitAggregator /\ [][NextAggregator]_vars

\* The events of the runs in which every order of the calls is replayed:
\* two that are never outliers and one that is an outlier at two seconds,
\* with three values of Rows_sent.
OrderEvents == {e \in Events : e.Query \in {"select 1", "select 2", "select 4"}}

NextOrder ==
    \/ \E event \in OrderEvents, id \in DOMAIN Fingerprint :
           AddEvent(event, id, Fingerprint[id])
    \/ Finalize

SpecOrder == InitAggregator /\ [][NextOrder]_vars

RECURSIVE Repeat(_, _)
\* strings.Repeat(s, n)
Repeat(s, n) ==
    IF n = 0 THEN ""
    ELSE LET half == Repeat(s, n \div 2)
         IN  half \o half \o (IF n % 2 = 1 THEN s ELSE "")

\* The events of the runs with long queries: a query of 15 bytes, one of
\* MAX_EXAMPLE_BYTES bytes and one of a byte more, each slower than the one
\* before.
LongEvents ==
    LET digits == Repeat("0123456789", MAX_EXAMPLE_BYTES \div 10 + 1)
    IN  {[NewEvent EXCEPT !.Query = "select 1 from t",
                          !.TimeMetrics = "Query_time" :> 1000000],
         [NewEvent EXCEPT !.Query = SubSeq(digits, 1, MAX_EXAMPLE_BYTES),
                          !.TimeMetrics = "Query_time" :> 2000000],
         [NewEvent EXCEPT !.Query = SubSeq(digits, 1, MAX_EXAMPLE_BYTES + 1),
                          !.TimeMetrics = "Query_time" :> 3000000]}

NextLong ==
    \/ \E event \in LongEvents, id \in DOMAIN Fingerprint :
           AddEvent(event, id, Fingerprint[id])
    \/ Finalize

SpecLong == InitAggregator /\ [][NextLong]_vars

(***************************************************************************)
(* The caller of NewAggregateClass.                                        *)
(***************************************************************************)
\* the member classes of TestAggregateClass
c1 ==
    [Id |-> "111", Fingerprint |-> "select *", TotalQueries |-> U64(5),
     UniqueQueries |-> 1,
     Metrics |->
         [TimeMetrics |->
              "Query_time" :>
                  [NewTimeStats EXCEPT
                      !.Sum = 1123000, !.Min = 100000,
                      !.Avg = [num |-> 200000, den |-> 1], !.Med = 155000,
                      !.P95 = 101000, !.Max = 3222000],
          NumberMetrics |->
              "Rows_sent" :>
                  [NewNumberStats EXCEPT
                      !.Sum = U64(90), !.Min = U64(4), !.Avg = U64(18),
                      !.Med = U64(7), !.P95 = U64(8), !.Max = U64(10)],
          BoolMetrics |->
              "Full_scan" :> [NewBoolStats EXCEPT !.Sum = U64(10)]],
     Example |-> Nil, outliers |-> U64(0), lastDb |-> "", sample |-> FALSE,
     maxQueryTime |-> 0, MaxQueryCommentMetadata |-> Nil]

c2 ==
    [Id |-> "222", Fingerprint |-> "insert t", TotalQueries |-> U64(4),
     UniqueQueries |-> 1,
     Metrics |->
         [TimeMetrics |->
              "Query_time" :>
                  [NewTimeStats EXCEPT
                      !.Sum = 1123000, !.Min = 111000,
                      !.Avg = [num |-> 200000, den |-> 1], !.Med = 5555000,
                      !.P95 = 9999000, !.Max = 5222000],
          NumberMetrics |->
              "Rows_sent" :>
                  [NewNumberStats EXCEPT
                      !.Sum = U64(100), !.Min = U64(0), !.Avg = U64(25),
                      !.Med = U64(7), !.P95 = U64(8), !.Max = U64(11)],
          BoolMetrics |->
              "Full_scan" :> [NewBoolStats EXCEPT !.Sum = U64(10)]],
     Example |-> Nil, outliers |-> U64(0), lastDb |-> "", sample |-> FALSE,
     maxQueryTime |-> 0, MaxQueryCommentMetadata |-> Nil]

\* The classes a caller has: those of the test, and three that Finalize
\* left: one of an event of a second and an outlier of three seconds at
\* rate limit 2, one of an event that has only Rows_sent, and one of no
\* event.
MemberClasses ==
    LET Event(query) == CHOOSE e \in Events : e.Query = query
    IN  {c1, c2,
         ClassFinalize(
             ClassAddEvent(
                 ClassAddEvent(NewClass("a", "select ?", TRUE),
                               Event("select 1"), FALSE),
                 Event("select 3"), TRUE),
             2),
         ClassFinalize(ClassAddEvent(NewClass("b", "select ? from t", FALSE),
                                     Event("select 5"), FALSE),
                       2),
         ClassFinalize(NewClass("c", "select ? from u", FALSE), 0)}

InitMerge == InitOn({[data |-> "", lines |-> {}]})

\* a call of NewAggregateClass
Aggregate(members) ==
    /\ merged = Nil
    /\ merged' = [members |-> members,
                  class |-> NewAggregateClass("anId", "aFingerprint", members),
                  after |-> NewAggregateClassMembers("anId", "aFingerprint",
                                                     members)]
    /\ UNCHANGED <<agg, added, result, pvars>>

NextMerge ==
    \E members \in UNION {[1..n -> MemberClasses] : n \in 0..MaxMembers} :
        Aggregate(members)

SpecMerge == InitMerge /\ [][NextMerge]_vars

(***************************************************************************)
(* Properties.                                                             *)
(***************************************************************************)
\* parseSlowLog of the tests has returned: parse has run to the end of the
\* fixed file, slow001.log, started at offset off, with no Stop before the
\* end, no read error and no crash
Parsed(off) ==
    /\ src.lines = {}
    /\ started
    /\ opt.StartOffset = off
    /\ pc = "done"
    /\ ended = "eof"
    /\ stopChan = "open"

\* C1: every event delivered on the Events channel has a Query_time entry in
\* its time metrics, for every input and every start offset.
C1_QueryTime ==
    \A i \in 1..Len(delivered) : "Query_time" \in DOMAIN delivered[i].TimeMetrics

\* A parser started inside the file has thrown away an event without
\* Query_time and then delivered an event.
C1_Witness ==
    /\ Len(delivered) >= 1
    /\ opt.StartOffset > 0
    /\ discarded >= 1

\* C2: every event delivered on the Events channel has a non-empty query,
\* also when its body is only ignored SET lines or a lone ";".
C2_QueryNonEmpty ==
    \A i \in 1..Len(delivered) : delivered[i].Query # ""

\* C3: the events of one parser are delivered in source order: each has an
\* offset strictly greater than the offset of the event delivered before it,
\* whatever the options.
C3_OffsetsIncrease ==
    \A i \in 1..Len(delivered) - 1 : delivered[i].Offset < delivered[i + 1].Offset

\* Two events are delivered by a parser that has a non-empty admin filter.
C3_Witness ==
    /\ Len(delivered) >= 2
    /\ opt.FilterAdminCommand # {}

\* C4: the offset of every delivered event is the byte position of the
\* event's own first header line, plus one when that position is not zero,
\* whatever the start offset and whatever events were thrown away or
\* filtered before it.
C4_OffsetOfFirstHeader ==
    \A i \in 1..Len(delivered) :
        delivered[i].Offset = IF origins[i] = 0 THEN 0 ELSE origins[i] + 1

\* C5 as stated: parsing slow001.log from offset 0 delivers exactly two
\* events, of offsets 200 and 383.
C5_Offsets200And383 ==
    Parsed(0) =>
        [i \in 1..Len(delivered) |-> delivered[i].Offset] = <<200, 383>>

\* C5: parsing slow001.log from offset 0 delivers exactly two events, of
\* offsets 200 and 359: the positions 199 and 358 of their first header
\* lines, each plus one.
C5_Offsets200And359 ==
    Parsed(0) =>
        [i \in 1..Len(delivered) |-> delivered[i].Offset] = <<200, 359>>

\* slow001.log has been parsed from offset 0 to its end.
C5_Witness ==
    /\ Parsed(0)
    /\ Len(delivered) = 2

\* C6: parsing slow001.log from offset 359 delivers exactly one event, the
\* second of the log, with offset 383, query "select sleep(2) from test.n",
\* db sakila, Query_time 2 s and Lock_time 0; nothing is delivered for the
\* truncated first line.
C6_StartOffset359 ==
    Parsed(359) =>
        /\ Len(delivered) = 1
        /\ delivered[1].Offset = 383
        /\ delivered[1].Query = "select sleep(2) from test.n"
        /\ delivered[1].Db = "sakila"
        /\ delivered[1].Ts = ""
        /\ delivered[1].TimeMetrics["Query_time"] = 2000000
        /\ delivered[1].TimeMetrics["Lock_time"] = 0

\* slow001.log has been parsed from offset 359 to its end.
C6_Witness ==
    /\ Parsed(359)
    /\ Len(delivered) = 1
    /\ delivered[1].User = "root"

\* C7: no call of Stop panics, however many calls are made and whenever.
C7_StopNeverPanics == ~stopPanic

\* C8 as stated: no event is delivered once Stop has returned on a started
\* parser.
C8_NoneAfterStop == afterStop = 0

\* C8: once Stop has returned on a started parser, at most one more event
\* is delivered: the one the parser goroutine was offering, or was about to
\* offer, before it next looks at the stop signal.
C8_AtMostOneAfterStop == afterStop <= 1

\* An event has been delivered after Stop returned, and the parser has
\* ended because of the stop signal.
C8_Witness ==
    /\ afterStop = 1
    /\ ended = "stop"

\* C9: after Stop on a started parser the parser goroutine ends and the
\* Events channel is closed, even when nothing is received any more, and
\* Error() is nil unless there was a read error or a crash.
C9_StopEnds ==
    /\ (started /\ stopChan = "closed") ~> (pc = "done" /\ eventChan = "closed")
    /\ [](stopChan = "closed" /\ pc = "done" /\ ended \notin {"read", "panic"}
            => err = "")

\* The parser gave up an event because of Stop, nothing was ever received,
\* and it has ended with the channel closed and no error.
C9_Witness ==
    /\ dropped >= 1
    /\ delivered = <<>>
    /\ pc = "done"
    /\ eventChan = "closed"
    /\ err = ""

\* C10: with a consumer that receives every event offered, the parser
\* goroutine ends; it closes the Events channel exactly once, however it
\* ends; and when it ended at the end of the input, all complete lines are
\* read and Error() is nil.
C10_EndsAndCloses ==
    /\ started ~> (pc = "done" /\ eventChan = "closed")
    /\ [](closes <= 1 /\ (closes = 1 <=> eventChan = "closed"))
    /\ [](pc \in {"done", "recover"} <=> closes = 1)
    /\ [](ended = "eof" => err = "" /\ src.data = "")

\* The parser has delivered events and ended at the end of the input with
\* the channel closed once.
C10_Witness ==
    /\ pc = "done"
    /\ ended = "eof"
    /\ Len(delivered) >= 2
    /\ closes = 1
    /\ stopChan = "open"

\* C11: a call of Start on a started parser returns ErrStarted and has no
\* other effect: no goroutine is started, and options, byte counters and
\* parser state are as they were.
C11_StartTwice ==
    [][started =>
        /\ startRet' \in {startRet, "ErrStarted"}
        /\ goroutines' = goroutines
        /\ opt' = opt
        /\ startRet' # startRet =>
              UNCHANGED <<src, nread, started, stopChan, eventChan, err, p, pc,
                          pend, ended, delivered, origins, hdrPos, pos,
                          afterStop, dropped, discarded, closes, last,
                          stopPanic>>]_vars

\* Start has returned ErrStarted to a caller while the parser goroutine,
\* having delivered an event, is offering another.
C11_Witness ==
    /\ startRet = "ErrStarted"
    /\ goroutines = 1
    /\ pc = "send"
    /\ Len(delivered) >= 1

\* C12: while an event awaits acceptance the parser reads no line and builds
\* no event; the one pending event is released only by the consumer
\* receiving it or by the stop signal, and nothing is delivered otherwise.
C12_Rendezvous ==
    [][/\ pc = "send" =>
            /\ nread' = nread /\ src' = src /\ last' = last
            /\ pc' = "send" => p' = p /\ pend' = pend
            /\ pc' # "send" =>
                  \/ delivered' = Append(delivered, p.event)
                  \/ /\ stopChan = "closed"
                     /\ dropped' = dropped + 1
                     /\ delivered' = delivered
       /\ pc # "send" => delivered' = delivered /\ dropped' = dropped]_vars

\* An event is pending, no Stop was called, a header line waits to be
\* processed after the send, and input is left to read.
C12_Witness ==
    /\ pc = "send"
    /\ stopChan = "open"
    /\ nread < MaxLines
    /\ pend.then # ""

\* C13: once the parser goroutine has panicked and the Events channel is
\* seen closed, Error() is the crash error.
C13_CrashError ==
    ended = "panic" /\ eventChan = "closed" => err = "crash"

\* C14: a read error other than EOF ends the event sequence: the channel is
\* closed, Error() is the read error, and nothing is delivered by the
\* failed read or after it, the event under construction included.
C14_ReadError ==
    /\ [](ended = "read" => pc = "done" /\ eventChan = "closed" /\ err = "read")
    /\ [][ended' = "read" => delivered' = delivered]_vars

\* A read failed after an event was delivered and while another, with its
\* Query_time and a query line, was under construction.
C14_Witness ==
    /\ ended = "read"
    /\ Len(delivered) >= 1
    /\ p.queryLines > 0
    /\ "Query_time" \in DOMAIN p.event.TimeMetrics

\* C15: no event whose query is an admin command of FilterAdminCommand is
\* ever delivered, whatever lines come before or after the admin line.
C15_FilteredNotDelivered ==
    \A i \in 1..Len(delivered) :
        ~(delivered[i].Admin /\ delivered[i].Query \in opt.FilterAdminCommand)

\* C16: after an admin line whose command is in FilterAdminCommand the
\* parser is idle with cleared event state: no header lines, no query
\* lines and a fresh event.
C16_FilteredCleared ==
    (/\ pc = "loop"
     /\ HasPrefix(last, "# admin")
     /\ adminRe(last) # <<>>
     /\ TrimSuffix(adminRe(last)[1], ";") \in opt.FilterAdminCommand)
    => /\ ~p.inHeader /\ ~p.inQuery
       /\ p.headerLines = 0 /\ p.queryLines = 0
       /\ p.event = NewEvent

\* a meta line as section 4.1.3 of the specification describes it
LooksMeta(text) ==
    \/ HasPrefix(text, "Time ")
    \/ HasPrefix(text, "Tcp ")
    \/ HasPrefix(text, "TCP ")
    \/ HasPrefix(text, "/") /\ HasSuffix(text, "with:")

\* C17 as stated: every line that looks like a meta line, whatever its
\* length, is dropped in every parser state: only the byte counters change.
C17_MetaAnyLength ==
    [][nread' = nread + 1 /\ LooksMeta(last') =>
        /\ pc' = "loop"
        /\ p'.bytesRead = p.bytesRead + Len(last') + 1
        /\ p' = [p EXCEPT !.bytesRead = p'.bytesRead,
                          !.lineOffset = p'.lineOffset]
        /\ UNCHANGED <<delivered, discarded, dropped>>]_vars

\* C17: every line of at least 20 bytes, its "\n" counted, that looks like
\* a meta line is dropped in every parser state: only the byte counters
\* change.
C17_MetaLong ==
    [][nread' = nread + 1 /\ LooksMeta(last') /\ Len(last') + 1 >= 20 =>
        /\ pc' = "loop"
        /\ p'.bytesRead = p.bytesRead + Len(last') + 1
        /\ p' = [p EXCEPT !.bytesRead = p'.bytesRead,
                          !.lineOffset = p'.lineOffset]
        /\ UNCHANGED <<delivered, discarded, dropped>>]_vars

\* A meta line of 20 bytes or more has been read between the query lines
\* of an event.
C17_Witness ==
    /\ pc = "loop"
    /\ LooksMeta(last)
    /\ Len(last) + 1 >= 20
    /\ p.inQuery
    /\ p.queryLines >= 1



\* C18: the global class and the classes of the IDs count the same events.
\* In every state, before Finalize and after it, the TotalQueries of the
\* global class is the sum of the TotalQueries of the classes of the IDs,
\* and so is its count of outliers; the Result of Finalize has these
\* classes.
C18_GlobalIsSum ==
    LET RECURSIVE Total(_, _)
        Total(ids, field) ==
            IF ids = {} THEN U64(0)
            ELSE LET id == CHOOSE i \in ids : TRUE
                 IN  U64Add(agg.classes[id][field], Total(ids \ {id}, field))
    IN  /\ agg.global.TotalQueries = Total(DOMAIN agg.classes, "TotalQueries")
        /\ agg.global.outliers = Total(DOMAIN agg.classes, "outliers")
        /\ result # Nil =>
               result.Global = agg.global /\ result.Class = agg.classes

\* Finalize has returned a result for two classes with an outlier each and
\* one other event, scaled by the rate limit 2
C18_Witness ==
    /\ result # Nil
    /\ result.RateLimit = 2
    /\ DOMAIN result.Class = {"a", "b"}
    /\ result.Class["a"].outliers = U64(1)
    /\ result.Class["b"].outliers = U64(1)
    /\ result.Global.TotalQueries = U64(4)

C20_StatsOrdered ==
    LET Of(id) == SelectSeq(added, LAMBDA x : x.id = id)
        RECURSIVE TimeSum(_, _)
        TimeSum(s, k) ==
            IF s = <<>> THEN 0
            ELSE (IF ~s[1].outlier /\ k \in DOMAIN s[1].event.TimeMetrics
                  THEN s[1].event.TimeMetrics[k] ELSE 0)
                 + TimeSum(Tail(s), k)
        \* the sum of the values, and whether it is 2^64 or more
        RECURSIVE NumberSum(_, _)
        NumberSum(s, k) ==
            IF s = <<>> THEN [sum |-> U64(0), over |-> FALSE]
            ELSE LET rest == NumberSum(Tail(s), k)
                     val == IF ~s[1].outlier
                               /\ k \in DOMAIN s[1].event.NumberMetrics
                            THEN s[1].event.NumberMetrics[k] ELSE U64(0)
                     sum == U64Add(val, rest.sum)
                 IN  [sum |-> sum, over |-> rest.over \/ U64Less(sum, val)]
        Time(t, s, k) ==
            /\ t.Min <= t.Med /\ t.Med <= t.Max
            /\ t.Min <= t.P95 /\ t.P95 <= t.Max
            /\ t.Min * t.Avg.den <= t.Avg.num
            /\ t.Avg.num <= t.Max * t.Avg.den
            /\ result.RateLimit >= 1 => t.Sum >= TimeSum(s, k)
        Number(n, s, k) ==
            /\ U64Leq(n.Min, n.Med) /\ U64Leq(n.Med, n.Max)
            /\ U64Leq(n.Min, n.P95) /\ U64Leq(n.P95, n.Max)
            /\ U64Leq(n.Min, n.Avg) /\ U64Leq(n.Avg, n.Max)
            /\ result.RateLimit >= 1 =>
                   /\ ~NumberSum(s, k).over
                   /\ U64Leq(NumberSum(s, k).sum, n.Sum)
        Ordered(c, s) ==
            /\ \A k \in DOMAIN c.Metrics.TimeMetrics :
                   Time(c.Metrics.TimeMetrics[k], s, k)
            /\ \A k \in DOMAIN c.Metrics.NumberMetrics :
                   Number(c.Metrics.NumberMetrics[k], s, k)
    IN  result # Nil =>
            /\ Ordered(result.Global, added)
            /\ \A id \in DOMAIN result.Class : Ordered(result.Class[id], Of(id))

C22_LastRateLimit ==
    LET n == Len(added)
        R == IF n = 0 THEN 0 ELSE added[n].event.RateLimit
        By == IF R = 0 THEN 1 ELSE R
        Calls(id, o) ==
            Cardinality({i \in 1..n : added[i].outlier = o
                                      /\ id \in {"", added[i].id}})
        Scaled(c) ==
            c.TotalQueries = U64(Calls(c.Id, FALSE) * By + Calls(c.Id, TRUE))
    IN  /\ agg.rateLimit = R
        /\ result # Nil =>
               /\ result.RateLimit = R
               /\ Scaled(result.Global)
               /\ \A id \in DOMAIN result.Class : Scaled(result.Class[id])

\* Finalize has returned after two events of rate limit 2 and a last one of
\* rate limit 0, none of them an outlier
C22_Witness ==
    /\ result # Nil
    /\ Len(added) = 3
    /\ added[1].event.RateLimit = 2 /\ added[2].event.RateLimit = 2
    /\ added[3].event.RateLimit = 0
    /\ result.Global.TotalQueries = U64(3)

\* C23: before Finalize, a class made with sample = true that was given an
\* event with a Query_time above 0 has the example of the first event added
\* to it that has the greatest Query_time of all: its Query_time, its Query
\* and its Ts; the Db is the last Db that is not empty among the events
\* added up to that one, itself included.
C23_ExampleOfGreatest ==
    \A id \in DOMAIN agg.classes :
        LET c == agg.classes[id]
            s == SelectSeq(added, LAMBDA x : x.id = id)
            Qt(i) == Seen(s[i].event.TimeMetrics, "Query_time", 0)
            first == CHOOSE i \in 1..Len(s) :
                         /\ \A j \in 1..Len(s) : Qt(j) <= Qt(i)
                         /\ \A j \in 1..(i - 1) : Qt(j) < Qt(i)
            dbs == {j \in 1..first : s[j].event.Db # ""}
        IN  result = Nil /\ c.sample /\ (\E i \in 1..Len(s) : Qt(i) > 0) =>
                c.Example = [QueryTime |-> Qt(first),
                             Query |-> s[first].event.Query,
                             Ts |-> s[first].event.Ts,
                             Db |-> IF dbs = {} THEN ""
                                    ELSE s[Max(dbs)].event.Db]

\* a class with samples was given an event of one second with a Db, then
\* two events of three seconds, the first of them without a Db
C23_Witness ==
    /\ result = Nil
    /\ agg.samples
    /\ Len(added) = 3
    /\ \A i \in 1..3 : added[i].id = "a"
    /\ added[1].event.Query = "select 1"
    /\ added[2].event.Query = "select 3"
    /\ added[3].event.Query = "select 4"
    /\ agg.classes["a"].Example.Query = "select 3"
    /\ agg.classes["a"].Example.Db = "db1"

\* C24: after Finalize a class has an example only if it was made with
\* sample = true and one of its events carried Query_time: the global class
\* of a Result has none, and no class has one when the aggregator was made
\* with samples = false.
C24_ExampleOnlyIfSampled ==
    LET Carried(id) ==
            \E i \in 1..Len(added) :
                /\ id \in {"", added[i].id}
                /\ "Query_time" \in DOMAIN added[i].event.TimeMetrics
        OnlyIf(c) == c.Example # Nil => c.sample /\ Carried(c.Id)
    IN  result # Nil =>
            /\ OnlyIf(result.Global)
            /\ \A id \in DOMAIN result.Class : OnlyIf(result.Class[id])
            /\ result.Global.Example = Nil
            /\ ~agg.samples =>
                   \A id \in DOMAIN result.Class : result.Class[id].Example = Nil

\* Finalize of an aggregator with samples has returned a class with an
\* example and a class without, its only event carrying no Query_time
C24_Witness ==
    /\ result # Nil
    /\ agg.samples
    /\ DOMAIN result.Class = {"a", "b"}
    /\ result.Class["a"].Example # Nil
    /\ result.Class["b"].Example = Nil
    /\ \E i \in 1..Len(added) :
           added[i].id = "a"
           /\ "Query_time" \in DOMAIN added[i].event.TimeMetrics

\* C25: the Query of an example is never longer than MAX_EXAMPLE_BYTES.  In
\* every state of a class with samples that has an example, before Finalize
\* and after it, the Query is that of the event the example was taken from
\* (the first with the greatest Query_time) when that has at most
\* MAX_EXAMPLE_BYTES bytes; when it has more, the Query has exactly
\* MAX_EXAMPLE_BYTES bytes, the first MAX_EXAMPLE_BYTES - 3 of the event's
\* and then "...".
C25_ExampleTruncated ==
    \A id \in DOMAIN agg.classes :
        LET c == agg.classes[id]
            s == SelectSeq(added, LAMBDA x : x.id = id)
            Qt(i) == Seen(s[i].event.TimeMetrics, "Query_time", 0)
            first == CHOOSE i \in 1..Len(s) :
                         /\ \A j \in 1..Len(s) : Qt(j) <= Qt(i)
                         /\ \A j \in 1..(i - 1) : Qt(j) < Qt(i)
            from == s[first].event.Query
            query == c.Example.Query
        IN  c.sample /\ c.Example # Nil =>
                /\ Len(query) <= MAX_EXAMPLE_BYTES
                /\ IF Len(from) > MAX_EXAMPLE_BYTES
                   THEN /\ Len(query) = MAX_EXAMPLE_BYTES
                        /\ \A i \in 1..(MAX_EXAMPLE_BYTES - 3) :
                               Char(query, i) = Char(from, i)
                        /\ From(query, MAX_EXAMPLE_BYTES - 2) = "..."
                   ELSE query = from

\* a class has the example of a query of MAX_EXAMPLE_BYTES + 1 bytes, cut,
\* and another that of a query of MAX_EXAMPLE_BYTES bytes, whole
C25_Witness ==
    /\ DOMAIN agg.classes = {"a", "b"}
    /\ agg.samples
    /\ \E i \in 1..Len(added) :
           added[i].id = "a" /\ Len(added[i].event.Query) > MAX_EXAMPLE_BYTES
    /\ Len(agg.classes["a"].Example.Query) = MAX_EXAMPLE_BYTES
    /\ HasSuffix(agg.classes["a"].Example.Query, "...")
    /\ Len(agg.classes["b"].Example.Query) = MAX_EXAMPLE_BYTES
    /\ ~HasSuffix(agg.classes["b"].Example.Query, "...")

\* C26: the MaxQueryCommentMetadata of a class that was given an event with
\* a Query_time above 0 is the CommentMetadata of an event with the
\* greatest Query_time among those added to it.
C26_CommentOfGreatest ==
    LET Of(id) == SelectSeq(added, LAMBDA x : id \in {"", x.id})
        Qt(s, i) == Seen(s[i].event.TimeMetrics, "Query_time", 0)
        Greatest(c, s) ==
            (\E i \in 1..Len(s) : Qt(s, i) > 0) =>
                \E i \in 1..Len(s) :
                    /\ \A j \in 1..Len(s) : Qt(s, j) <= Qt(s, i)
                    /\ c.MaxQueryCommentMetadata = s[i].event.CommentMetadata
    IN  /\ Greatest(agg.global, Of(""))
        /\ \A id \in DOMAIN agg.classes : Greatest(agg.classes[id], Of(id))

C28_AggregateAvg ==
    LET ms == merged.members
        got == merged.class
        Shared(kind, k) ==
            Cardinality({i \in 1..Len(ms) :
                            k \in KeysOf(ms[i].Metrics[kind])}) >= 2
    IN  merged # Nil /\ got # Panic =>
            /\ \A k \in DOMAIN got.Metrics.TimeMetrics :
                   LET of == got.Metrics.TimeMetrics[k]
                   IN  Shared("TimeMetrics", k) =>
                           of.Avg.num * ToInt(got.TotalQueries)
                               = of.Sum * of.Avg.den
            /\ \A k \in DOMAIN got.Metrics.NumberMetrics :
                   LET of == got.Metrics.NumberMetrics[k]
                   IN  Shared("NumberMetrics", k) =>
                           of.Avg = U64Div(of.Sum, ToInt(got.TotalQueries))

\* C29: over lines that are not meta lines, the control state of the parser
\* (its flags inHeader and inQuery) after each line is the state of the
\* machine of the specification after the same lines, and the parser calls
\* sendEvent exactly where that machine emits: on a header line read in
\* InQuery, on an admin line whose command is not filtered, and at the end of
\* input when the event under construction has a query line.  A call of
\* sendEvent shows as the goroutine blocked in its select or as an event it
\* discarded; the lines on which the goroutine panics are left out.
C29_MachineRefined ==
    [][pc = "read" /\ pc' # "read" /\ ended' \notin {"read", "panic"} =>
           LET after == IF pc' = "send" THEN pend' ELSE p'
               state == IF after.inHeader THEN "InHeader"
                        ELSE IF after.inQuery THEN "InQuery"
                        ELSE "Idle"
           IN  /\ nread' = nread + 1 => state = machine'.state
               /\ (pc' = "send" \/ discarded' = discarded + 1)
                      <=> machine'.emit # Nil]_vars

\* C30: the Query of every event that is offered to the consumer and is not
\* an admin event is made of the body lines of the event: without the lines
\* that match setRe and without every `use` line that comes before all other
\* lines and has a line after it, the others are joined by "\n" in the order
\* of the file, and one trailing ";" is removed.  The body lines are all the
\* lines between the headers of the event and the next header line or the
\* end of input, so that a query of several lines is one event.
C30_QueryOfBody ==
    LET RECURSIVE Join(_, _)
        Join(lines, i) ==
            IF i > Len(lines) THEN ""
            ELSE IF i = Len(lines) THEN lines[i]
            ELSE lines[i] \o "\n" \o Join(lines, i + 1)
        IsSet(l) ==
            \E v \in {"last_insert_id", "insert_id", "timestamp"} :
                HasPrefix(l, "SET " \o v)
        IsUse(l) ==
            Len(l) >= 4 /\ SubSeq(l, 1, 4) \in
                {a \o b \o c \o " " : a \in {"u", "U"}, b \in {"s", "S"}, c \in {"e", "E"}}
        QueryOf(body) ==
            LET unset == SelectSeq(body, LAMBDA l : ~IsSet(l))
                first == IF \E i \in 1..Len(unset) : ~IsUse(unset[i])
                         THEN Min({i \in 1..Len(unset) : ~IsUse(unset[i])})
                         ELSE Len(unset)
            IN  TrimSuffix(Join(unset, Max({first, 1})), ";")
    IN  pc = "send" /\ ~p.event.Admin =>
            /\ machine.emit # Nil
            /\ p.event.Query = QueryOf(machine.emit.body)

\* An event of three body lines is offered: the `use` line is left out and
\* the two lines of the query are joined.
C30_Witness ==
    /\ pc = "send"
    /\ ~p.event.Admin
    /\ machine.emit # Nil
    /\ machine.emit.body = <<"use db1;", "foo", "\t0 AS counter;">>
    /\ p.event.Query = "foo\n\t0 AS counter"

\* C31: after every call of sendEvent (the event delivered, discarded for
\* want of a Query_time, or given up because of Stop) headerLines and
\* queryLines are 0 and the event is a new one, so that the next event holds
\* only what its own lines give: when sendEvent was called on a header line,
\* the event afterwards is what that line makes of a new event, and so is
\* the event after a header line that begins an event from Idle.
C31_FreshEvent ==
    [][LET fresh == [p' EXCEPT !.event = NewEvent, !.headerLines = 0,
                              !.queryLines = 0]
           begun(line) == parseHeaderLine(fresh, line, opt').p
           same(q) == /\ p'.event = q.event
                      /\ p'.headerLines = q.headerLines
                      /\ p'.queryLines = q.queryLines
       IN  /\ pc = "send" /\ pc' # "send" =>
                  same(IF pend.then = "" THEN fresh ELSE begun(pend.then))
           /\ pc = "read" /\ discarded' = discarded + 1 =>
                  same(IF nread' = nread + 1 /\ headerRe(last')
                       THEN begun(last') ELSE fresh)
           /\ pc = "read" /\ nread' = nread + 1 /\ machine.state = "Idle"
                  /\ machine'.state = "InHeader" =>
                  same(begun(last'))]_vars

\* C32 as claimed: an event without Query_time is discarded silently only
\* when headerLines is 0; with header lines consumed the parser does not
\* discard it.
C32_DiscardHeaderless ==
    [][discarded' = discarded + 1 => p.headerLines = 0]_vars

\* C32, amended: sendEvent discards an event without Query_time silently,
\* and the parser goes on, when header lines have been consumed
\* (headerLines >= 1), and every such event is discarded wherever the
\* specification emits one; it is with headerLines = 0 that sendEvent panics.
C32_DiscardWithHeaders ==
    [][/\ discarded' = discarded + 1 =>
              /\ "Query_time" \notin DOMAIN p.event.TimeMetrics
              /\ p.headerLines >= 1
              /\ ended' # "panic"
              /\ pc' \in {"loop", "done"}
       /\ /\ pc = "read" /\ pc' # "read" /\ ended' # "read"
          /\ machine'.emit # Nil
          /\ ~(nread' = nread + 1 /\ HasPrefix(last', "# admin")
                  /\ adminRe(last') = <<>>)
          /\ "Query_time" \notin DOMAIN p.event.TimeMetrics
          /\ p.headerLines >= 1
          => discarded' = discarded + 1 /\ ended' # "panic"
       /\ sendEvent(NewFileParser, FALSE, FALSE).act = "panic"]_vars

\* The event begun by a "# Time" line had no Query_time when the next
\* header line came: it was discarded, and the parser reads on.
C32_Witness ==
    /\ discarded = 1
    /\ pc = "read"
    /\ ended = ""
    /\ p.headerLines = 1
    /\ delivered = <<>>

\* C33: no line ends the parser: whatever line is read, the parser goroutine
\* does not panic on it, so that it proceeds to the next line and Error()
\* stays nil.
C33_NoLineEndsParser ==
    [][pc = "read" /\ nread' = nread + 1 => ended' # "panic" /\ err' = ""]_vars

\* C34: AddEvent counts an event as an outlier exactly when outlierTime > 0
\* and the event has a Query_time greater than outlierTime, and it does so
\* in the global class and in the class of the ID alike: an outlier adds 1
\* to outliers and its metric values to outlierSum, any other event adds 1
\* to TotalQueries and its metric values to Sum, and the other counter and
\* the other sum stay as they were.
C34_OneOutlierDecision ==
    [][Len(added') = Len(added) + 1 =>
        LET call == added'[Len(added')]
            e == call.event
            o == /\ agg.outlierTime > 0
                 /\ "Query_time" \in DOMAIN e.TimeMetrics
                 /\ e.TimeMetrics["Query_time"] > agg.outlierTime
            one == U64(1)
            Counted(c, d) ==
                /\ d.outliers = IF o THEN U64Add(c.outliers, one) ELSE c.outliers
                /\ d.TotalQueries = IF o THEN c.TotalQueries
                                    ELSE U64Add(c.TotalQueries, one)
                /\ \A k \in DOMAIN e.TimeMetrics :
                       LET s == Seen(c.Metrics.TimeMetrics, k, NewTimeStats)
                           t == d.Metrics.TimeMetrics[k]
                           v == e.TimeMetrics[k]
                       IN  /\ t.outlierSum = IF o THEN s.outlierSum + v ELSE s.outlierSum
                           /\ t.Sum = IF o THEN s.Sum ELSE s.Sum + v
                /\ \A k \in DOMAIN e.NumberMetrics :
                       LET s == Seen(c.Metrics.NumberMetrics, k, NewNumberStats)
                           t == d.Metrics.NumberMetrics[k]
                           v == e.NumberMetrics[k]
                       IN  /\ t.outlierSum = IF o THEN U64Add(s.outlierSum, v)
                                             ELSE s.outlierSum
                           /\ t.Sum = IF o THEN s.Sum ELSE U64Add(s.Sum, v)
                /\ \A k \in DOMAIN e.BoolMetrics :
                       LET s == Seen(c.Metrics.BoolMetrics, k, NewBoolStats)
                           t == d.Metrics.BoolMetrics[k]
                           v == IF e.BoolMetrics[k] THEN one ELSE U64(0)
                       IN  /\ t.outlierSum = IF o THEN U64Add(s.outlierSum, v)
                                             ELSE s.outlierSum
                           /\ t.Sum = IF o THEN s.Sum ELSE U64Add(s.Sum, v)
        IN  /\ call.outlier = o
            /\ Counted(agg.global, agg'.global)
            /\ Counted(Seen(agg.classes, call.id,
                            NewClass(call.id, Fingerprint[call.id], agg.samples)),
                       agg'.classes[call.id])]_vars

\* With an outlier time of two seconds, an event of three seconds has been
\* counted as an outlier in the global class and in its own, and an event
\* without Query_time and one of one second have been counted as queries.
C34_Witness ==
    /\ agg.outlierTime = 2000000
    /\ Len(added) = 3
    /\ \E i \in 1..3 : "Query_time" \notin DOMAIN added[i].event.TimeMetrics
    /\ \E i \in 1..3 : /\ added[i].outlier
                       /\ agg.classes[added[i].id].outliers = U64(1)
    /\ agg.global.outliers = U64(1)
    /\ agg.global.TotalQueries = U64(2)
    /\ result = Nil

\* C35: after Finalize every number metric of every class, the global one
\* too, has for its cnt >= 1 observed values (those of outliers included)
\* Min and Max the smallest and the largest of them, Med and P95 the values
\* at the indices (50*cnt)/100 and (95*cnt)/100 of their ascending order,
\* both indices below cnt, and Avg the sum of the values, as a number,
\* divided by cnt and rounded down.
C35_NumberStats ==
    LET Of(id) == SelectSeq(added, LAMBDA x : x.id = id)
        \* a sum of a few uint64 as a number: five limbs, nothing wraps
        Wide(x, y) ==
            LET s5 == x[5] + y[4]
                s4 == x[4] + y[3] + s5 \div Limb
                s3 == x[3] + y[2] + s4 \div Limb
                s2 == x[2] + y[1] + s3 \div Limb
                s1 == x[1] + s2 \div Limb
            IN  <<s1, s2 % Limb, s3 % Limb, s4 % Limb, s5 % Limb>>
        RECURSIVE Total(_, _)
        Total(obs, i) ==
            IF i > Len(obs) THEN <<0, 0, 0, 0, 0>>
            ELSE Wide(Total(obs, i + 1), obs[i])
        Quotient(x, k) ==
            LET n1 == x[1]
                n2 == (n1 % k) * Limb + x[2]
                n3 == (n2 % k) * Limb + x[3]
                n4 == (n3 % k) * Limb + x[4]
                n5 == (n4 % k) * Limb + x[5]
            IN  <<n1 \div k, n2 \div k, n3 \div k, n4 \div k, n5 \div k>>
        Stats(n, calls, k) ==
            LET with == SelectSeq(calls,
                            LAMBDA x : k \in DOMAIN x.event.NumberMetrics)
                obs == [i \in 1..Len(with) |-> with[i].event.NumberMetrics[k]]
                cnt == Len(obs)
                \* the value at index i (from 0) of the ascending order
                Sorted(i) ==
                    CHOOSE v \in {obs[j] : j \in 1..cnt} :
                        /\ Cardinality({j \in 1..cnt : U64Less(obs[j], v)}) <= i
                        /\ i < Cardinality({j \in 1..cnt : U64Leq(obs[j], v)})
            IN  /\ cnt >= 1
                /\ (50 * cnt) \div 100 < cnt
                /\ (95 * cnt) \div 100 < cnt
                /\ n.Min = Sorted(0)
                /\ n.Max = Sorted(cnt - 1)
                /\ n.Med = Sorted((50 * cnt) \div 100)
                /\ n.P95 = Sorted((95 * cnt) \div 100)
                /\ <<0>> \o n.Avg = Quotient(Total(obs, 1), cnt)
        Class(c, calls) ==
            \A k \in DOMAIN c.Metrics.NumberMetrics :
                Stats(c.Metrics.NumberMetrics[k], calls, k)
    IN  result # Nil =>
            /\ Class(result.Global, added)
            /\ \A id \in DOMAIN result.Class : Class(result.Class[id], Of(id))

\* C36: whenever the parser is in a header or in a query, or has counted a
\* query line, it has counted a header line; so sendEvent never runs with
\* headerLines = 0 and never panics: the only panic of the goroutine is that
\* of parseAdmin on an admin line without a command, and an event without
\* Query_time is never offered to the consumer.
C36_HeaderCounted ==
    /\ p.inHeader \/ p.inQuery \/ p.queryLines > 0 => p.headerLines >= 1
    /\ ended = "panic" => HasPrefix(last, "# admin") /\ adminRe(last) = <<>>
    /\ pc = "send" => p.headerLines >= 1 /\ "Query_time" \in DOMAIN p.event.TimeMetrics

\* An event without Query_time has been discarded on the header line of the
\* next event, whose first query line has been read since.
C36_Witness ==
    /\ discarded = 1
    /\ p.inQuery
    /\ p.queryLines = 1
    /\ p.headerLines = 1
    /\ ended = ""

\* C37: with a consumer that receives whatever is offered, at most one event
\* is delivered after Stop has returned: an event delivered once the stop
\* signal is set is the first such event, after every send the goroutine is
\* back at the check of the stop signal or has ended at the end of input,
\* and at that check a set stop signal ends it.
C37_OneEmissionPerCheck ==
    [][/\ delivered' # delivered /\ stopChan = "closed" =>
              afterStop = 0 /\ afterStop' = 1
       /\ pc = "send" /\ pc' # "send" =>
              \/ pc' = "loop"
              \/ pc' = "done" /\ ended' = "eof"
       /\ pc = "loop" /\ pc' # "loop" /\ stopChan = "closed" =>
              pc' = "done" /\ ended' = "stop" /\ delivered' = delivered]_vars

\* One event was delivered before Stop and one after it, and the parser has
\* ended on the stop signal.
C37_Witness ==
    /\ Len(delivered) = 2
    /\ afterStop = 1
    /\ pc = "done"
    /\ ended = "stop"

\* C38: bytes at the end of the input that no newline ends are not
\* processed.  The step on which ReadString returns them beside io.EOF
\* counts no line and no byte, does to the parser state and to the event
\* what the end of input does without them, and, when the event had no
\* query line before, changes nothing, delivers nothing and ends parse.
C38_TailUnprocessed ==
    [][pc = "read" /\ src.data # "" /\ ReadString(src.data).err = "EOF"
         /\ src'.data = "" =>
           /\ nread' = nread /\ pos' = pos /\ last' = last
           /\ p' = parseEOF(p).p
           /\ p.queryLines = 0 =>
                  /\ p' = p
                  /\ pc' = "done" /\ ended' = "eof"
                  /\ delivered' = delivered
                  /\ discarded' = discarded]_vars

\* The header line of a file has been read and parse has ended at the end
\* of the input with the event still in its header and nothing delivered:
\* the bytes after that line, which every file of TailFiles has and which
\* no newline ends, were never counted.
C38_Witness ==
    /\ ended = "eof"
    /\ src.data = ""
    /\ nread = 1
    /\ pos = Len("# Query_time: 2  Lock_time: 0") + 1
    /\ p.inHeader
    /\ p.headerLines = 1
    /\ p.queryLines = 0
    /\ "Query_time" \in DOMAIN p.event.TimeMetrics
    /\ delivered = <<>>
    /\ dropped = 0
    /\ discarded = 0

\* C39: an event with Query_time whose body lines are all `use` lines and
\* SET lines, so that queryLines is 0, is offered to the consumer when a
\* header line follows, with the `use` line less its ";" as the Query when
\* the body has one, and is dropped when the end of input follows: parse
\* ends there and delivers nothing.
C39_UseOnlyEvent ==
    [][LET body == machine.body
           useOnly == /\ pc = "read"
                      /\ p.inQuery /\ p.queryLines = 0
                      /\ "Query_time" \in DOMAIN p.event.TimeMetrics
                      /\ machine.state = "InQuery"
                      /\ body # <<>>
                      /\ \A i \in 1..Len(body) :
                             useRe(body[i]) # "" \/ setRe(body[i])
           uses == {i \in 1..Len(body) : useRe(body[i]) # ""}
       IN  /\ useOnly /\ nread' = nread + 1 /\ headerRe(last') =>
                  /\ pc' = "send"
                  /\ machine'.emit = [body |-> body]
                  /\ uses # {} =>
                         p'.event.Query = TrimSuffix(body[Max(uses)], ";")
           /\ useOnly /\ nread' = nread /\ pc' # "read" /\ ended' # "read" =>
                  /\ pc' = "done" /\ ended' = "eof"
                  /\ machine'.emit = Nil
                  /\ delivered' = delivered
                  /\ discarded' = discarded]_vars

\* Two events whose bodies are one `use` line each: the first, followed by
\* the header of the second, was delivered with the `use` line as its
\* Query, and the second, followed by the end of input, was dropped.
C39_Witness ==
    /\ ended = "eof"
    /\ Len(delivered) = 1
    /\ delivered[1].Query = "use db1"
    /\ delivered[1].Db = "db1"
    /\ machine.body = <<"use db1;">>
    /\ machine.emit = Nil
    /\ p.inQuery
    /\ p.queryLines = 0
    /\ p.event.Query = "use db1;"
    /\ dropped = 0
    /\ discarded = 0

\* C40: NewAggregateClass leaves its members as they were: after the call
\* every member has the TotalQueries, the UniqueQueries and, in each time,
\* number and bool metric, the stats that it had before the call.
C40_MembersUnchanged ==
    merged # Nil =>
        \A i \in 1..Len(merged.members) :
            LET before == merged.members[i]
                now == merged.after[i]
            IN  /\ now.TotalQueries = before.TotalQueries
                /\ now.UniqueQueries = before.UniqueQueries
                /\ \A kind \in {"TimeMetrics", "NumberMetrics", "BoolMetrics"} :
                       /\ KeysOf(now.Metrics[kind]) = KeysOf(before.Metrics[kind])
                       /\ \A k \in KeysOf(before.Metrics[kind]) :
                              now.Metrics[kind][k] = before.Metrics[kind][k]

\* NewAggregateClass has merged c1 and c2, in this order: the stats of the
\* aggregate, copied from c1, have c2's values added, and c1 has its own.
C40_Witness ==
    /\ merged # Nil
    /\ merged.members = <<c1, c2>>
    /\ merged.class # Panic
    /\ merged.class.Metrics.TimeMetrics["Query_time"].Sum
           = c1.Metrics.TimeMetrics["Query_time"].Sum
             + c2.Metrics.TimeMetrics["Query_time"].Sum
    /\ merged.class.Metrics.BoolMetrics["Full_scan"].Sum
           # c1.Metrics.BoolMetrics["Full_scan"].Sum
    /\ merged.after[1] = c1
    /\ merged.after[2] = c2

=============================================================================
